---------------------------- MODULE Spec2Model ----------------------------
(***************************************************************************)
(* Model of presto: the profiling engine (src/src/lib.rs, stats.rs,        *)
(* cleaning.rs, types.rs), the terminal viewer it calls (src/src/tui.rs)   *)
(* and the command-line entry point (src/src/bin/presto.rs).               *)
(*                                                                         *)
(* Cells are strings.  TLA+ strings are atomic, so the parsers of the      *)
(* program (str::parse::<i64>, str::parse::<f64>, str::to_lowercase) are   *)
(* given by their graphs on a finite lexicon of cell texts.                *)
(*                                                                         *)
(* f64 values are modelled exactly: a finite value is a rational, or a     *)
(* signed square root of a rational (a standard deviation and what is      *)
(* derived from one by products and quotients); NaN and the infinities are *)
(* values of their own, with the IEEE-754 rules for them (NaN compares     *)
(* false with everything, itself included; x/0 is NaN for x = 0 and an     *)
(* infinity otherwise).  Rounding is not modelled.                         *)
(*                                                                         *)
(* statrs (the statistics library the program calls) is modelled by what   *)
(* its Data type computes: mean() is Some(arithmetic mean), variance() is  *)
(* Some(sample variance, divisor n - 1) and Some(NaN) for fewer than two   *)
(* values, std_dev() is variance().map(sqrt).                              *)
(***************************************************************************)
EXTENDS Integers, Sequences, FiniteSets, TLC

VARIABLES
    headers,    \* Dataset.headers
    rows,       \* Dataset.rows
    pc,         \* where the program stands
    stats,      \* one ColumnStats per column, once computed
    outliers,   \* one list of row indices per column, once computed
    types,      \* one TypeInference per column, once computed
    ret,        \* what the last call returned: None while it has not
    desc,       \* the Description, once Description::new has built it
    tui,        \* where render_tui stands, "off" outside it
    tab_index,  \* render_tui's tab_index
    shown,      \* the viewer has drawn a frame on the terminal
    file,       \* presto_insights.json: None until it is written
    prev,       \* what the call before the last returned
    out,        \* what the analyses called on their own returned, by name
    view        \* render_tui's scroll offsets, selections and other locals

vars ==
    <<headers, rows, pc, stats, outliers, types, ret, desc, tui, tab_index,
      shown, file, prev, out, view>>

\* The variables of the viewer and of the caller of describe.
viewerVars == <<tui, tab_index, shown, file, view>>

---------------------------------------------------------------------------
(* Option<T> and Result<T, E>                                              *)

None == [some |-> FALSE]

Some(x) == [some |-> TRUE, v |-> x]

Ok(x) == [kind |-> "Ok", v |-> x]

Err(e) == [kind |-> "Err", e |-> e]

\* A panic (an unwrap of None, an index out of range) unwinds out of the call.
Panic(at) == [kind |-> "Panic", at |-> at]

IsOk(r) == r.kind = "Ok"

\* tui.rs:25-34: the locals of render_tui as it initialises them.  area is
\* content_area (width, height) as the current iteration of the loop has
\* laid it out, key the key of the event handled last (None once a frame
\* has been drawn since), moves the number of arrow-key events handled so
\* far.  overflow_checks is no local: it is whether the build checks usize
\* arithmetic for overflow, None until a subtraction that underflows shows
\* which build is running.
ViewInit ==
    [table_h_scroll |-> 0, corr_h_scroll |-> 0,
     table_state |-> None, corr_state |-> None,
     details_v_scroll |-> 0, details_h_scroll |-> 0,
     advanced_v_scroll |-> 0, advanced_h_scroll |-> 0,
     plots_v_scroll |-> 0, plots_h_scroll |-> 0,
     area |-> <<0, 0>>, key |-> None, moves |-> 0, overflow_checks |-> None]

---------------------------------------------------------------------------
(* f64                                                                     *)

AbsInt(i) == IF i < 0 THEN -i ELSE i

SignInt(i) == IF i < 0 THEN -1 ELSE IF i = 0 THEN 0 ELSE 1

RECURSIVE GCD(_, _)
GCD(a, b) == IF b = 0 THEN a ELSE GCD(b, a % b)

\* The rational n/d (d # 0) in lowest terms with a positive denominator.
Rat(n, d) ==
    LET g == GCD(IF n < 0 THEN -n ELSE n, IF d < 0 THEN -d ELSE d)
    IN  [k |-> "rat",
         n |-> (IF d < 0 THEN -n ELSE n) \div g,
         d |-> (IF d < 0 THEN -d ELSE d) \div g]

\* s * sqrt(n/d), for s in {-1, 0, 1} and n/d >= 0; s = 0 exactly when n = 0.
Root(s, n, d) ==
    LET q == Rat(n, d)
    IN  [k |-> "root", s |-> IF q.n = 0 THEN 0 ELSE s, n |-> q.n, d |-> q.d]

NaN == [k |-> "nan"]

Inf(s) == [k |-> "inf", s |-> s]

IsNaN(x) == x.k = "nan"

IsInf(x) == x.k = "inf"

IsFinite(x) == x.k \in {"rat", "root"}

\* The sign of a value that is not NaN.
Sgn(x) == IF x.k = "rat" THEN SignInt(x.n) ELSE x.s

\* The square of a finite value, a rational: in lowest terms as x is.
Square(x) ==
    [k |-> "rat",
     n |-> IF x.k = "rat" THEN x.n * x.n ELSE x.n,
     d |-> IF x.k = "rat" THEN x.d * x.d ELSE x.d]

IsZero(x) == IsFinite(x) /\ Sgn(x) = 0

\* n is the square of a natural number.
IsSquare(n) == \E r \in 0..n : r * r = n

\* A square root whose value is rational, as that rational.
AsRat(x) ==
    IF x.k = "root" /\ IsSquare(x.n) /\ IsSquare(x.d)
    THEN Rat(x.s * (CHOOSE r \in 0..x.n : r * r = x.n),
             CHOOSE r \in 0..x.d : r * r = x.d)
    ELSE x

\* The sum of two finite values: of two rationals, or of two square roots
\* of the same number.  No other sum has a value here.
FinAdd(a, b) ==
    CASE a.k = "rat" /\ b.k = "rat" -> Rat(a.n * b.d + b.n * a.d, a.d * b.d)
      [] a.k = "root" /\ b.k = "root" /\ a.n = b.n /\ a.d = b.d
           -> Root(SignInt(a.s + b.s), 4 * a.n, a.d)

\* x + y, for operands that are rationals, infinities or NaN, for a square
\* root added to zero, and for square roots that FinAdd can add.
FAdd(x, y) ==
    IF IsNaN(x) \/ IsNaN(y) THEN NaN
    ELSE IF x.k = "root" /\ IsZero(y) THEN x
    ELSE IF y.k = "root" /\ IsZero(x) THEN y
    ELSE IF IsInf(x) /\ IsInf(y) THEN (IF x.s = y.s THEN x ELSE NaN)
    ELSE IF IsInf(x) THEN x
    ELSE IF IsInf(y) THEN y
    ELSE FinAdd(AsRat(x), AsRat(y))

FNeg(x) ==
    CASE x.k = "nan" -> NaN
      [] x.k = "inf" -> Inf(-x.s)
      [] x.k = "rat" -> [x EXCEPT !.n = -x.n]
      [] x.k = "root" -> [x EXCEPT !.s = -x.s]

FSub(x, y) == FAdd(x, FNeg(y))

\* f64::abs
FAbs(x) ==
    CASE x.k = "nan" -> NaN
      [] x.k = "inf" -> Inf(1)
      [] x.k = "rat" -> [x EXCEPT !.n = AbsInt(x.n)]
      [] x.k = "root" -> [x EXCEPT !.s = AbsInt(x.s)]

FMul(x, y) ==
    IF IsNaN(x) \/ IsNaN(y) THEN NaN
    ELSE IF IsInf(x) \/ IsInf(y)
         THEN (IF Sgn(x) * Sgn(y) = 0 THEN NaN ELSE Inf(Sgn(x) * Sgn(y)))
    ELSE IF x.k = "rat" /\ y.k = "rat" THEN Rat(x.n * y.n, x.d * y.d)
    ELSE LET a == Square(x)
             b == Square(y)
         IN  Root(Sgn(x) * Sgn(y), a.n * b.n, a.d * b.d)

\* x / y; a zero divisor is +0.0 (no computation of the program yields -0.0
\* as a divisor).
FDiv(x, y) ==
    IF IsNaN(x) \/ IsNaN(y) THEN NaN
    ELSE IF IsInf(y) THEN (IF IsInf(x) THEN NaN ELSE Rat(0, 1))
    ELSE IF IsZero(y) THEN (IF IsZero(x) THEN NaN ELSE Inf(Sgn(x)))
    ELSE IF IsInf(x) THEN Inf(Sgn(x) * Sgn(y))
    ELSE IF x.k = "rat" /\ y.k = "rat" THEN Rat(x.n * y.d, x.d * y.n)
    ELSE LET a == Square(x)
             b == Square(y)
         IN  Root(Sgn(x) * Sgn(y), a.n * b.d, a.d * b.n)

\* f64::sqrt of a rational, an infinity or NaN.
FSqrt(x) ==
    CASE x.k = "nan" -> NaN
      [] x.k = "inf" -> (IF x.s > 0 THEN x ELSE NaN)
      [] x.k = "rat" -> (IF x.n < 0 THEN NaN ELSE Root(1, x.n, x.d))

\* f64::powi(2)
FPowi2(x) ==
    CASE x.k = "nan" -> NaN
      [] x.k = "inf" -> Inf(1)
      [] OTHER -> Square(x)

\* x < y for finite x, y: two rationals are compared as they are, a square
\* root by sign, then by square.
FinLt(x, y) ==
    LET a == Square(x)
        b == Square(y)
        lt == a.n * b.d < b.n * a.d
        gt == a.n * b.d > b.n * a.d
    IN  IF x.k = "rat" /\ y.k = "rat" THEN x.n * y.d < y.n * x.d
        ELSE IF Sgn(x) # Sgn(y) THEN Sgn(x) < Sgn(y)
        ELSE IF Sgn(x) > 0 THEN lt
        ELSE IF Sgn(x) < 0 THEN gt
        ELSE FALSE

\* The comparison operators of f64: false whenever an operand is NaN.
FLt(x, y) ==
    IF IsNaN(x) \/ IsNaN(y) THEN FALSE
    ELSE IF IsInf(x) THEN x.s < 0 /\ ~(IsInf(y) /\ y.s < 0)
    ELSE IF IsInf(y) THEN y.s > 0
    ELSE FinLt(x, y)

FGt(x, y) == FLt(y, x)

FEq(x, y) ==
    IF IsNaN(x) \/ IsNaN(y) THEN FALSE
    ELSE IF IsInf(x) \/ IsInf(y) THEN IsInf(x) /\ IsInf(y) /\ x.s = y.s
    ELSE IF x.k = "rat" /\ y.k = "rat" THEN x = y
    ELSE Sgn(x) = Sgn(y) /\ Square(x) = Square(y)

\* f64::partial_cmp: None when an operand is NaN.
partial_cmp(x, y) ==
    IF IsNaN(x) \/ IsNaN(y) THEN None
    ELSE IF FLt(x, y) THEN Some("Less")
    ELSE IF FGt(x, y) THEN Some("Greater")
    ELSE Some("Equal")

\* i as f64
FromInt(i) == [k |-> "rat", n |-> i, d |-> 1]

---------------------------------------------------------------------------
(* The lexicon of cell texts and the parsers on it                         *)

\* The texts str::parse::<i64> accepts, with their values.
IntegerTexts ==
    { <<"0", 0>>, <<"1", 1>>, <<"2", 2>>, <<"3", 3>>, <<"4", 4>>, <<"5", 5>>,
      <<"50", 50>>, <<"100", 100>>, <<"-1", -1>>,
      <<"5000000", 5000000>>, <<"-95000000", -95000000>>,
      <<"-15000000", -15000000>> }

\* The texts str::parse::<f64> accepts and str::parse::<i64> does not.
FloatTexts ==
    { <<"1.5", Rat(3, 2)>>, <<"2.0", Rat(2, 1)>>, <<"NaN", NaN>>,
      <<"inf", Inf(1)>> }

\* The other texts of the lexicon: neither parser accepts them.
OtherTexts == {"", "NA", "x", "a", "b", "true", "True", "false"}

parse_i64(s) ==
    IF \E t \in IntegerTexts : t[1] = s
    THEN Ok((CHOOSE t \in IntegerTexts : t[1] = s)[2])
    ELSE Err("ParseIntError")

parse_f64(s) ==
    IF \E t \in IntegerTexts : t[1] = s
    THEN Ok(FromInt((CHOOSE t \in IntegerTexts : t[1] = s)[2]))
    ELSE IF \E t \in FloatTexts : t[1] = s
    THEN Ok((CHOOSE t \in FloatTexts : t[1] = s)[2])
    ELSE Err("ParseFloatError")

to_lowercase(s) ==
    CASE s = "True" -> "true"
      [] s = "Target" -> "target"
      [] s = "NA" -> "na"
      [] s = "NaN" -> "nan"
      [] OTHER -> s

\* The missing-cell test the engine repeats: val.is_empty() || val == "NA".
IsMissing(s) == s = "" \/ s = "NA"

---------------------------------------------------------------------------
(* Sequence helpers                                                        *)

RECURSIVE SumSeq(_)
SumSeq(s) == IF s = <<>> THEN Rat(0, 1) ELSE FAdd(Head(s), SumSeq(Tail(s)))

\* Insert x into the ascending sequence s.
RECURSIVE Insert(_, _)
Insert(x, s) ==
    IF s = <<>> THEN <<x>>
    ELSE IF FLt(x, Head(s)) THEN <<x>> \o s
    ELSE <<Head(s)>> \o Insert(x, Tail(s))

\* The ascending order of a sequence of comparable f64 values.
RECURSIVE SortAsc(_)
SortAsc(s) == IF s = <<>> THEN <<>> ELSE Insert(Head(s), SortAsc(Tail(s)))

---------------------------------------------------------------------------
(* statrs::statistics::Data                                                *)

\* Data::mean(): Some(the arithmetic mean), Some(NaN) for no value.
DataMean(values) ==
    IF values = <<>> THEN Some(NaN)
    ELSE Some(FDiv(SumSeq(values), FromInt(Len(values))))

RECURSIVE SumSqDev(_, _)
SumSqDev(values, m) ==
    IF values = <<>> THEN Rat(0, 1)
    ELSE FAdd(FPowi2(FSub(Head(values), m)), SumSqDev(Tail(values), m))

\* Data::variance(): Some(the sample variance, divisor n - 1), Some(NaN) for
\* fewer than two values.
DataVariance(values) ==
    IF Len(values) < 2 THEN Some(NaN)
    ELSE Some(FDiv(SumSqDev(values, DataMean(values).v),
                   FromInt(Len(values) - 1)))

\* Data::std_dev(): variance().map(f64::sqrt)
MapSqrt(opt) == IF opt.some THEN Some(FSqrt(opt.v)) ELSE None

DataStdDev(values) == MapSqrt(DataVariance(values))

unwrap_or(opt, default) == IF opt.some THEN opt.v ELSE default

---------------------------------------------------------------------------
(* stats.rs: compute_stats                                                 *)

\* The cell of row r (from 1) in column col_idx (from 0).
Cell(rws, r, col_idx) == rws[r][col_idx + 1]

\* The values compute_stats keeps: the non-missing cells that parse as f64,
\* in row order.
RECURSIVE StatsValues(_, _)
StatsValues(rws, col_idx) ==
    IF rws = <<>> THEN <<>>
    ELSE LET cell == Head(rws)[col_idx + 1]
             p == parse_f64(cell)
         IN  (IF ~IsMissing(cell) /\ IsOk(p) THEN <<p.v>> ELSE <<>>)
             \o StatsValues(Tail(rws), col_idx)

\* sorted.par_sort_unstable_by(|a, b| a.partial_cmp(b).unwrap()): a sort of
\* two or more values compares each of them at least once, and a comparison
\* with a NaN unwraps None.
SortPanics(values) ==
    Len(values) >= 2 /\ \E i \in 1..Len(values) : IsNaN(values[i])

NoStats ==
    [mean |-> None, median |-> None, min |-> None, max |-> None,
     std_dev |-> None, variance |-> None, skewness |-> None, kurtosis |-> None]

\* skewness (order 3) and kurtosis (order 4) are Some exactly when
\* std_dev_val > 0.0.  The value is kept as the standardised moment of the
\* values it is the sum over, unevaluated: its magnitude is worked out where
\* the program compares it (MomentAbsGtOne).
Moment(order, values, std_dev_val) ==
    IF FGt(std_dev_val, Rat(0, 1))
    THEN Some([k |-> "moment", order |-> order, values |-> values])
    ELSE None

\* stats.rs:48-52: the median of the sorted values (positions from 1 here).
Median(sorted) ==
    IF Len(sorted) % 2 = 0
    THEN FDiv(FAdd(sorted[Len(sorted) \div 2], sorted[Len(sorted) \div 2 + 1]),
              FromInt(2))
    ELSE sorted[Len(sorted) \div 2 + 1]

\* stats.rs:45-88: the ColumnStats of values that are not empty and that the
\* sort has put in the order sorted, with std_dev_val of stats.rs:58.
StatsOfValues(values, sorted, std_dev_val) ==
    [mean |-> Some(DataMean(values).v),
     median |-> Some(Median(sorted)),
     min |-> Some(sorted[1]),
     max |-> Some(sorted[Len(sorted)]),
     std_dev |-> Some(std_dev_val),
     variance |-> Some(FPowi2(std_dev_val)),
     skewness |-> Moment(3, values, std_dev_val),
     kurtosis |-> Moment(4, values, std_dev_val)]

\* stats.rs:31-88, from the values kept.
StatsOf(values) ==
    IF values = <<>> THEN Ok(NoStats)
    ELSE IF SortPanics(values) THEN Panic("stats.rs:47")
    ELSE Ok(StatsOfValues(values, SortAsc(values),
                          unwrap_or(DataStdDev(values), FromInt(0))))

compute_stats(rws, col_idx) == StatsOf(StatsValues(rws, col_idx))

---------------------------------------------------------------------------
(* cleaning.rs: detect_outliers                                            *)

\* A threshold of 2.0 in place of 3.0.
z_threshold_low == Rat(2, 1)

z_threshold == Rat(3, 1)

IsOutlier(cell, mean, std_dev) ==
    /\ ~IsMissing(cell)
    /\ IsOk(parse_f64(cell))
    /\ FGt(FDiv(FAbs(FSub(parse_f64(cell).v, mean)), std_dev), z_threshold)

\* The row indices (from 0) of the flagged cells, ascending.
RECURSIVE OutlierRows(_, _, _, _, _)
OutlierRows(rws, col_idx, mean, std_dev, r) ==
    IF r > Len(rws) THEN <<>>
    ELSE (IF IsOutlier(Cell(rws, r, col_idx), mean, std_dev) THEN <<r - 1>> ELSE <<>>)
         \o OutlierRows(rws, col_idx, mean, std_dev, r + 1)

detect_outliers(rws, col_idx, st) ==
    IF ~st.mean.some \/ ~st.std_dev.some THEN <<>>
    ELSE OutlierRows(rws, col_idx, st.mean.v, st.std_dev.v, 1)

---------------------------------------------------------------------------
(* types.rs: infer_type                                                    *)

IsBoolText(s) == to_lowercase(s) \in {"true", "false", "1", "0"}

\* The loop of infer_type from row r on, with the three flags as they stand.
RECURSIVE InferLoop(_, _, _, _, _, _)
InferLoop(rws, col_idx, r, is_int, is_float, is_bool) ==
    IF r > Len(rws)
    THEN IF is_int /\ ~is_float /\ ~is_bool THEN "Integer"
         ELSE IF is_float /\ ~is_bool THEN "Float"
         ELSE IF is_bool THEN "Boolean"
         ELSE "Mixed"
    ELSE LET val == Cell(rws, r, col_idx)
             int2 == is_int /\ IsOk(parse_i64(val))
             float2 == is_float /\ IsOk(parse_f64(val))
             bool2 == is_bool /\ IsBoolText(val)
         IN  IF IsMissing(val)
             THEN InferLoop(rws, col_idx, r + 1, is_int, is_float, is_bool)
             ELSE IF ~int2 /\ ~float2 /\ ~bool2 THEN "String"
             ELSE InferLoop(rws, col_idx, r + 1, int2, float2, bool2)

\* infer_type with the integer test first: Integer for a column whose
\* non-missing cells all parse as i64 and are not all boolean texts.
infer_type_integer_first(rws, col_idx) ==
    LET cells == {Cell(rws, r, col_idx) : r \in 1..Len(rws)} \ {"", "NA"}
    IN  IF (\A v \in cells : IsOk(parse_i64(v))) /\ (\E v \in cells : ~IsBoolText(v))
        THEN "Integer"
        ELSE InferLoop(rws, col_idx, 1, TRUE, TRUE, TRUE)

infer_type(rws, col_idx) == InferLoop(rws, col_idx, 1, TRUE, TRUE, TRUE)

---------------------------------------------------------------------------
(* The column functions called on their own, on one-column tables          *)

MaxLen == 3

ColumnTexts == {"", "NA", "x", "true", "0", "1", "2", "1.5", "NaN", "100"}

\* The columns the documentation of the engine gives as examples.
ExampleColumns ==
    { <<"1", "2", "3", "4", "5", "100">>,
      <<"1", "2", "3">>,
      <<"1.5", "2.0">>,
      <<"true", "0", "1">>,
      <<"1", "x", "true">> }

Columns ==
    ExampleColumns \cup UNION { [1..n -> ColumnTexts] : n \in 0..MaxLen }

\* The one-column table whose column is col.
AsRows(col) == [r \in 1..Len(col) |-> <<col[r]>>]

\* The column col_idx (from 0) of a table, top to bottom.
Column(rws, col_idx) == [r \in 1..Len(rws) |-> rws[r][col_idx + 1]]

InitColumn ==
    /\ headers = <<"c0">>
    /\ rows \in {AsRows(col) : col \in Columns}
    /\ pc = "unit"
    /\ stats = <<>>
    /\ outliers = <<>>
    /\ types = <<>>
    /\ ret = None
    /\ desc = None
    /\ tui = "off"
    /\ tab_index = 0
    /\ shown = FALSE
    /\ file = None
    /\ prev = None
    /\ out = <<>>
    /\ view = ViewInit

CallInferType ==
    /\ pc = "unit"
    /\ types = <<>>
    /\ types' = <<infer_type(rows, 0)>>
    /\ UNCHANGED <<headers, rows, pc, stats, outliers, ret, desc, viewerVars, prev, out>>

ComputeStatsReturned(r) ==
    /\ ret' = Some(r)
    /\ stats' = IF IsOk(r) THEN <<r.v>> ELSE stats
    /\ pc' = IF IsOk(r) THEN pc ELSE "panicked"

CallComputeStats ==
    /\ pc = "unit"
    /\ ~ret.some
    /\ ComputeStatsReturned(compute_stats(rows, 0))
    /\ UNCHANGED <<headers, rows, outliers, types, desc, viewerVars, prev, out>>

CallDetectOutliers ==
    /\ pc = "unit"
    /\ stats # <<>>
    /\ outliers = <<>>
    /\ outliers' = <<detect_outliers(rows, 0, stats[1])>>
    /\ UNCHANGED <<headers, rows, pc, stats, types, ret, desc, viewerVars, prev, out>>

NextColumn == CallInferType \/ CallComputeStats \/ CallDetectOutliers

SpecColumn == InitColumn /\ [][NextColumn]_vars

---------------------------------------------------------------------------
(* lib.rs: describe, the analyses after the column statistics              *)

\* The values row[col_idx].parse::<f64>().ok() keeps, with the index (from 0)
\* of the row of each, in row order.
RECURSIVE IndexedValues(_, _, _)
IndexedValues(rws, col_idx, r) ==
    IF r > Len(rws) THEN <<>>
    ELSE LET p == parse_f64(Cell(rws, r, col_idx))
         IN  (IF IsOk(p) THEN << <<p.v, r - 1>> >> ELSE <<>>)
             \o IndexedValues(rws, col_idx, r + 1)

\* The values alone.
Firsts(iv) == [i \in 1..Len(iv) |-> iv[i][1]]

NumericValues(rws, col_idx) == Firsts(IndexedValues(rws, col_idx, 1))

\* The count without the is_empty test: only the cells that read "NA".
MissingCount_only_na(rws, col_idx) ==
    Cardinality({r \in 1..Len(rws) : Cell(rws, r, col_idx) = "NA"})

\* lib.rs:142-151
MissingCount(rws, col_idx) ==
    Cardinality({r \in 1..Len(rws) : IsMissing(Cell(rws, r, col_idx))})

\* The rows as a HashSet: the distinct rows.
DistinctRows(rws) == {rws[r] : r \in 1..Len(rws)}

\* The count of rows whose first cell repeats, for the count of rows that
\* repeat.
detect_duplicates_first_cell(rws) ==
    Len(rws) - Cardinality({rws[r][1] : r \in 1..Len(rws)})

detect_duplicates(rws) == Len(rws) - Cardinality(DistinctRows(rws))

RECURSIVE SumInts(_)
SumInts(s) == IF s = <<>> THEN 0 ELSE Head(s) + SumInts(Tail(s))

\* a as f64 / b as f64 * 100.0
Percent(a, b) == FMul(FDiv(FromInt(a), FromInt(b)), FromInt(100))

\* sum over the zipped pairs of (x - mean_x) * (y - mean_y); zip stops at the
\* shorter sequence.
RECURSIVE SumProducts(_, _, _, _)
SumProducts(xs, ys, mean_x, mean_y) ==
    IF xs = <<>> \/ ys = <<>> THEN Rat(0, 1)
    ELSE FAdd(FMul(FSub(Head(xs), mean_x), FSub(Head(ys), mean_y)),
              SumProducts(Tail(xs), Tail(ys), mean_x, mean_y))

\* lib.rs:209-227 and stats.rs:100-129: the pairs the zip of the two value
\* lists makes, each as the rows (from 0) its two values come from.
ZipRows(rws, i, j) ==
    LET a == IndexedValues(rws, i, 1)
        b == IndexedValues(rws, j, 1)
    IN  [k \in 1..(IF Len(a) < Len(b) THEN Len(a) ELSE Len(b)) |->
            <<a[k][2], b[k][2]>>]

\* The correlation of two value lists given the statistics of their columns:
\* cov / (std_i * std_j), 0.0 when a mean or a std_dev is None.
Pearson(xs, ys, st_x, st_y) ==
    IF st_x.mean.some /\ st_x.std_dev.some /\ st_y.mean.some /\ st_y.std_dev.some
    THEN LET cov == FDiv(SumProducts(xs, ys, st_x.mean.v, st_y.mean.v),
                         FromInt(Len(xs)))
         IN  FDiv(cov, FMul(st_x.std_dev.v, st_y.std_dev.v))
    ELSE Rat(0, 1)

\* lib.rs:205-237, one entry of the correlation matrix (i, j from 0)
CorrelationOf(col_i, col_j, st_i, st_j) ==
    IF Len(col_i) # Len(col_j) \/ col_i = <<>> THEN FromInt(0)
    ELSE Pearson(col_i, col_j, st_i, st_j)

Correlation(rws, sts, i, j) ==
    IF i = j THEN FromInt(1)
    ELSE CorrelationOf(NumericValues(rws, i), NumericValues(rws, j),
                       sts[i + 1], sts[j + 1])

Correlations(rws, sts, num_cols) ==
    [i \in 1..num_cols |-> [j \in 1..num_cols |-> Correlation(rws, sts, i - 1, j - 1)]]

\* The orders in which a HashMap with the keys S may hand out its entries:
\* every enumeration of S (the hasher is seeded at random for each map).
HashOrders(S) ==
    {o \in [1..Cardinality(S) -> S] : \A a, b \in 1..Cardinality(S) : o[a] = o[b] => a = b}

\* The non-missing values of a column, the keys of its counts map.
CountedValues(rws, col_idx) ==
    {Cell(rws, r, col_idx) : r \in 1..Len(rws)} \ {"", "NA"}

CountOf(rws, col_idx, val) ==
    Cardinality({r \in 1..Len(rws) : Cell(rws, r, col_idx) = val})

\* Insert the entry e behind the entries of the sorted list s that do not
\* count less than it: sort_by(|a, b| b.1.cmp(&a.1)) is stable.
RECURSIVE InsertByCount(_, _)
InsertByCount(e, s) ==
    IF s = <<>> THEN <<e>>
    ELSE IF Head(s)[2] >= e[2] THEN <<Head(s)>> \o InsertByCount(e, Tail(s))
    ELSE <<e>> \o s

\* The entries left in the order the map hands them out.
SortByCountDesc_unsorted(entries, done) == entries

RECURSIVE SortByCountDesc(_, _)
SortByCountDesc(entries, done) ==
    IF entries = <<>> THEN done
    ELSE SortByCountDesc(Tail(entries), InsertByCount(Head(entries), done))

TopN == 5

Take(s, n) == SubSeq(s, 1, IF Len(s) < n THEN Len(s) ELSE n)

\* The top values under the name of the first column, whatever the column.
TopValues_first_header(rws, hdrs, col_idx, order) ==
    LET entries == [i \in 1..Len(order) |-> <<order[i], CountOf(rws, col_idx, order[i])>>]
    IN  <<hdrs[1], Take(SortByCountDesc(entries, <<>>), TopN)>>

\* lib.rs:183-198: the top values of a column whose counts map iterates in
\* the order `order`.
TopValues(rws, hdrs, col_idx, order) ==
    LET entries == [i \in 1..Len(order) |-> <<order[i], CountOf(rws, col_idx, order[i])>>]
    IN  <<hdrs[col_idx + 1], Take(SortByCountDesc(entries, <<>>), TopN)>>

\* One iteration order for the counts map of every column.
HashOrderChoices(rws, num_cols) ==
    [1..num_cols -> UNION {HashOrders(CountedValues(rws, c - 1)) : c \in 1..num_cols}]

OrdersFit(rws, num_cols, orders) ==
    \A c \in 1..num_cols : orders[c] \in HashOrders(CountedValues(rws, c - 1))

\* str::contains("target") on the lower-cased header names of the lexicon.
ContainsTarget(lower) == lower \in {"target", "target_b"}

\* lib.rs:242-246: position(..).unwrap_or(0)
TargetIdx(hdrs) ==
    LET hits == {c \in 1..Len(hdrs) : ContainsTarget(to_lowercase(hdrs[c]))}
    IN  IF hits = {} THEN 0
        ELSE (CHOOSE c \in hits : \A o \in hits : c <= o) - 1

\* lib.rs:254-287: the entry of column col_idx, an Option.
ImportanceOf(col_idx, target_idx, col_values, target_values, st_i, st_t) ==
    IF col_idx # target_idx /\ col_values # <<>>
       /\ Len(col_values) = Len(target_values)
    THEN Some(<<col_idx, FAbs(Pearson(col_values, target_values, st_i, st_t))>>)
    ELSE None

Importance(rws, sts, col_idx, target_idx) ==
    ImportanceOf(col_idx, target_idx,
                 NumericValues(rws, col_idx), NumericValues(rws, target_idx),
                 sts[col_idx + 1], sts[target_idx + 1])

\* filter_map keeps the values of the Some.
OptionSeq(opt) == IF opt.some THEN <<opt.v>> ELSE <<>>

RECURSIVE ImportanceEntries(_, _, _, _, _)
ImportanceEntries(rws, sts, num_cols, target_idx, c) ==
    IF c >= num_cols THEN <<>>
    ELSE OptionSeq(Importance(rws, sts, c, target_idx))
         \o ImportanceEntries(rws, sts, num_cols, target_idx, c + 1)

\* The comparator of lib.rs:290 says Less for (a, b) when b.1 < a.1, and
\* Equal when a score is NaN.  The sort is stable: an entry moves in front
\* of exactly the entries the comparator puts after it.
RECURSIVE InsertByScore(_, _)
InsertByScore(e, s) ==
    IF s = <<>> THEN <<e>>
    ELSE IF FGt(e[2], s[Len(s)][2])
         THEN InsertByScore(e, SubSeq(s, 1, Len(s) - 1)) \o <<s[Len(s)]>>
         ELSE s \o <<e>>

RECURSIVE SortByScoreDesc(_, _)
SortByScoreDesc(entries, done) ==
    IF entries = <<>> THEN done
    ELSE SortByScoreDesc(Tail(entries), InsertByScore(Head(entries), done))

FeatureImportance(rws, sts, num_cols, target_idx) ==
    SortByScoreDesc(ImportanceEntries(rws, sts, num_cols, target_idx, 0), <<>>)

\* The anomalies with their rows counted from 1.
RECURSIVE AnomalyEntries_one_based(_, _, _)
AnomalyEntries_one_based(iv, col_idx, st) ==
    IF iv = <<>> THEN <<>>
    ELSE (IF FGt(FDiv(FAbs(FSub(Head(iv)[1], st.mean.v)), st.std_dev.v), Rat(3, 1))
          THEN << <<col_idx, Head(iv)[1], Head(iv)[2] + 1>> >> ELSE <<>>)
         \o AnomalyEntries_one_based(Tail(iv), col_idx, st)

\* lib.rs:294-310: the anomalies of one column, in row order.
RECURSIVE AnomalyEntries(_, _, _)
AnomalyEntries(iv, col_idx, st) ==
    IF iv = <<>> THEN <<>>
    ELSE LET val == Head(iv)[1]
             idx == Head(iv)[2]
             hit == FGt(FDiv(FAbs(FSub(val, st.mean.v)), st.std_dev.v), Rat(3, 1))
         IN  (IF hit THEN << <<col_idx, val, idx>> >> ELSE <<>>)
             \o AnomalyEntries(Tail(iv), col_idx, st)

ColumnAnomalies(rws, sts, col_idx) ==
    IF sts[col_idx + 1].mean.some /\ sts[col_idx + 1].std_dev.some
    THEN AnomalyEntries(IndexedValues(rws, col_idx, 1), col_idx, sts[col_idx + 1])
    ELSE <<>>

RECURSIVE Anomalies(_, _, _, _)
Anomalies(rws, sts, num_cols, c) ==
    IF c >= num_cols THEN <<>>
    ELSE ColumnAnomalies(rws, sts, c) \o Anomalies(rws, sts, num_cols, c + 1)

---------------------------------------------------------------------------
(* stats.rs and cleaning.rs: the analyses of the whole dataset             *)

\* stats.rs:98-142: the score of column i (from 0).
RECURSIVE TotalImpact(_, _, _, _, _)
\* stats.rs:120-139: what column j adds to the total impact of column i.
Impact(i, j, col_values, other_values, st_i, st_j) ==
    IF i = j \/ Len(other_values) # Len(col_values) THEN FromInt(0)
    ELSE FAbs(Pearson(col_values, other_values, st_i, st_j))

TotalImpact(rws, sts, num_cols, i, j) ==
    IF j >= num_cols THEN FromInt(0)
    ELSE FAdd(Impact(i, j, NumericValues(rws, i), NumericValues(rws, j),
                     sts[i + 1], sts[j + 1]),
              TotalImpact(rws, sts, num_cols, i, j + 1))

\* The score with the total divided by the number of columns that added to
\* it instead of by num_cols - 1.
DependencyScore_contributors(rws, sts, num_cols, i) ==
    IF NumericValues(rws, i) = <<>> THEN FromInt(0)
    ELSE FDiv(TotalImpact(rws, sts, num_cols, i, 0),
              FromInt(Cardinality({j \in (0..(num_cols - 1)) \ {i} :
                          Len(NumericValues(rws, j)) = Len(NumericValues(rws, i))})))

DependencyScore(rws, sts, num_cols, i) ==
    IF NumericValues(rws, i) = <<>> THEN FromInt(0)
    ELSE FDiv(TotalImpact(rws, sts, num_cols, i, 0), FromInt(num_cols - 1))

compute_dependency_scores(rws, sts, num_cols) ==
    [c \in 1..num_cols |-> DependencyScore(rws, sts, num_cols, c - 1)]

\* stats.rs:151-171: the drift of one column between the two halves of the
\* rows.
DriftOf(first_half, second_half, st) ==
    IF first_half = <<>> \/ second_half = <<>> THEN FromInt(0)
    ELSE FDiv(FAbs(FSub(unwrap_or(DataMean(first_half), FromInt(0)),
                        unwrap_or(DataMean(second_half), FromInt(0)))),
              unwrap_or(st.std_dev, FromInt(1)))

Drift(rws, col_idx, st) ==
    DriftOf(NumericValues(SubSeq(rws, 1, Len(rws) \div 2), col_idx),
            NumericValues(SubSeq(rws, Len(rws) \div 2 + 1, Len(rws)), col_idx),
            st)

detect_drift(rws, sts, num_cols) ==
    [c \in 1..num_cols |-> Drift(rws, c - 1, sts[c])]

\* stats.rs:175-185: the number of distinct cells of each column, the
\* missing ones included.
compute_cardinality(rws, num_cols) ==
    [c \in 1..num_cols |-> Cardinality({Cell(rws, r, c - 1) : r \in 1..Len(rws)})]

NumBins == 10

\* x.floor() as usize, then .min(9): the cast saturates, and NaN casts to 0.
BinIndex(x) ==
    CASE x.k = "nan" -> 0
      [] x.k = "inf" -> (IF x.s > 0 THEN NumBins - 1 ELSE 0)
      [] x.k = "rat" -> (IF x.n < 0 THEN 0
                         ELSE IF x.n \div x.d > NumBins - 1 THEN NumBins - 1
                         ELSE x.n \div x.d)

\* stats.rs:195-219: the histogram of one column; bins are numbered from 0.
\* stats.rs:209-219: the ten bins, each with its centre and its count.
Bins(values, min, bin_size) ==
    [b \in 1..NumBins |->
        <<FAdd(min, FMul(Rat(2 * (b - 1) + 1, 2), bin_size)),
          Cardinality({p \in 1..Len(values) :
              BinIndex(FDiv(FSub(values[p], min), bin_size)) = b - 1})>>]

DistributionOf(values, min, max) ==
    IF values = <<>> THEN <<>>
    ELSE IF FEq(min, max) THEN << <<min, Len(values)>> >>
    ELSE Bins(values, min, FDiv(FSub(max, min), FromInt(NumBins)))

Distribution(rws, col_idx, st) ==
    DistributionOf(NumericValues(rws, col_idx),
                   unwrap_or(st.min, FromInt(0)), unwrap_or(st.max, FromInt(0)))

compute_distribution(rws, sts, num_cols) ==
    [c \in 1..num_cols |-> Distribution(rws, c - 1, sts[c])]

\* str::contains("age") || contains("count") || contains("size") on the
\* lower-cased header names of the lexicon.
ContainsAgeCountSize(lower) == lower \in {"age", "count", "size"}

\* cleaning.rs:46-70: the non-missing cells of a column that parse to a
\* negative number, when the header names an age, a count or a size.
ConsistencyIssues(rws, hdrs, col_idx) ==
    Cardinality({r \in 1..Len(rws) :
        LET v == Cell(rws, r, col_idx)
        IN  /\ ~IsMissing(v)
            /\ IsOk(parse_f64(v))
            /\ ContainsAgeCountSize(to_lowercase(hdrs[col_idx + 1]))
            /\ FLt(parse_f64(v).v, Rat(0, 1))})

check_consistency(rws, hdrs, num_cols) ==
    [c \in 1..num_cols |-> ConsistencyIssues(rws, hdrs, c - 1)]

\* The texts of the lexicon NaiveDateTime::parse_from_str accepts with
\* "%Y-%m-%d %H:%M:%S" or with "%Y-%m-%d".
DateTexts == {"2024-01-01 10:00:00"}

\* The non-missing cells of a column, in row order.
RECURSIVE PresentCells(_, _, _)
PresentCells(rws, col_idx, r) ==
    IF r > Len(rws) THEN <<>>
    ELSE (IF IsMissing(Cell(rws, r, col_idx)) THEN <<>> ELSE <<Cell(rws, r, col_idx)>>)
         \o PresentCells(rws, col_idx, r + 1)

\* x <= y of f64: false when an operand is NaN.
FLe(x, y) == FLt(x, y) \/ FEq(x, y)

\* stats.rs:230-259: the temporal pattern of one column.
\* stats.rs:251-257: the trend of the parsed values.
Trend(nums, increasing, decreasing) ==
    IF increasing /\ ~decreasing THEN "Increasing"
    ELSE IF decreasing /\ ~increasing THEN "Decreasing"
    ELSE "None"

TrendOf(nums) ==
    Trend(nums,
          \A i \in 1..(Len(nums) - 1) : FLe(nums[i], nums[i + 1]),
          \A i \in 1..(Len(nums) - 1) : FLe(nums[i + 1], nums[i]))

PatternOf(values) ==
    IF values = <<>> THEN "None"
    ELSE IF \A i \in 1..Len(values) : values[i] \in DateTexts THEN "Date-like"
    ELSE IF \A i \in 1..Len(values) : IsOk(parse_f64(values[i]))
    THEN TrendOf([i \in 1..Len(values) |-> parse_f64(values[i]).v])
    ELSE "None"

TemporalPattern(rws, col_idx) == PatternOf(PresentCells(rws, col_idx, 1))

detect_temporal_patterns(rws, num_cols) ==
    [c \in 1..num_cols |-> TemporalPattern(rws, c - 1)]

RECURSIVE SumCubes(_, _)
SumCubes(values, m) ==
    IF values = <<>> THEN Rat(0, 1)
    ELSE LET d == FSub(Head(values), m)
         IN  FAdd(FMul(d, FMul(d, d)), SumCubes(Tail(values), m))

\* skew.abs() > 1.0 for the skewness compute_stats gives (stats.rs:60-65):
\* skew = sum(((x - mean) / std_dev)^3) / n, so that |skew| > 1 exactly when
\* (sum (x - mean)^3)^2 > n^2 * variance^3.
SkewAbsGtOne(s3, n, var) ==
    FGt(FMul(s3, s3), FMul(FMul(n, n), FMul(var, FMul(var, var))))

MomentAbsGtOne(moment) ==
    SkewAbsGtOne(SumCubes(moment.values, DataMean(moment.values).v),
                 FromInt(Len(moment.values)),
                 DataVariance(moment.values).v)

\* stats.rs:268-291: the suggestions for one column, in the order they are
\* pushed; the program joins them with ", ", and says "None" for none.
Suggestions(st) ==
    (IF st.skewness.some /\ MomentAbsGtOne(st.skewness.v)
     THEN <<"Log transform (skewed)">> ELSE <<>>)
    \o (IF st.min.some /\ FLt(st.min.v, Rat(0, 1))
        THEN <<"Shift positive">> ELSE <<>>)
    \o (IF st.min.some /\ st.max.some /\ FGt(FSub(st.max.v, st.min.v), Rat(100, 1))
        THEN <<"Normalize">> ELSE <<>>)

\* suggestions.join(", "), and "None" for no suggestion.
JoinOrNone(suggestions) ==
    IF suggestions = <<>> THEN [text |-> "None"] ELSE [joined |-> suggestions]

suggest_transformations(sts) ==
    [c \in 1..Len(sts) |->
        IF ~sts[c].mean.some THEN [text |-> "None"]
        ELSE JoinOrNone(Suggestions(sts[c]))]

NoiseMinValues == 10

\* The ways shuffle can split n values in a first half of n / 2 values and
\* the rest: the positions that end up in the first half.  No split is made
\* of fewer than NoiseMinValues values.
NoiseSplits(values) ==
    IF Len(values) < NoiseMinValues THEN {{}}
    ELSE {h \in SUBSET (1..Len(values)) : Cardinality(h) = Len(values) \div 2}

\* The values at the positions in (or, for inside = FALSE, not in) half.
RECURSIVE Part(_, _, _, _)
Part(values, half, inside, i) ==
    IF i > Len(values) THEN <<>>
    ELSE (IF (i \in half) = inside THEN <<values[i]>> ELSE <<>>)
         \o Part(values, half, inside, i + 1)

\* f64::min: the other operand when one is NaN.
FMin(x, y) == IF IsNaN(x) THEN y ELSE IF IsNaN(y) THEN x ELSE IF FLt(y, x) THEN y ELSE x

\* stats.rs:300-323: the noise score of one column when the shuffle puts the
\* positions of half in the first half.
\* stats.rs:318-323
NoiseOf(var1, var2, overall_var) ==
    FMin(IF FGt(overall_var, FromInt(0))
         THEN FDiv(FAbs(FSub(var1, var2)), overall_var)
         ELSE FromInt(0),
         FromInt(1))

NoiseOfValues(values, st, half) ==
    IF Len(values) < NoiseMinValues THEN FromInt(0)
    ELSE NoiseOf(unwrap_or(DataVariance(Part(values, half, TRUE, 1)), FromInt(0)),
                 unwrap_or(DataVariance(Part(values, half, FALSE, 1)), FromInt(0)),
                 IF st.std_dev.some THEN FPowi2(st.std_dev.v) ELSE FromInt(0))

Noise(rws, col_idx, st, half) == NoiseOfValues(NumericValues(rws, col_idx), st, half)

estimate_noise(rws, sts, num_cols, halves) ==
    [c \in 1..num_cols |-> Noise(rws, c - 1, sts[c], halves[c])]

\* One split for the shuffle of every column.
NoiseSplitChoices(rws, num_cols) ==
    [1..num_cols -> UNION {NoiseSplits(NumericValues(rws, c - 1)) : c \in 1..num_cols}]

SplitsFit(rws, num_cols, halves) ==
    \A c \in 1..num_cols : halves[c] \in NoiseSplits(NumericValues(rws, c - 1))

\* The similarity with the non-missing cells of column j, for those of
\* column i, as total_valid.
Similarity_valid_j(rws, i, j) ==
    LET matches == Cardinality({r \in 1..Len(rws) :
                        Cell(rws, r, i) = Cell(rws, r, j) /\ ~IsMissing(Cell(rws, r, i))})
        total_valid == Cardinality({r \in 1..Len(rws) : ~IsMissing(Cell(rws, r, j))})
    IN  IF total_valid > 0 THEN FDiv(FromInt(matches), FromInt(total_valid))
        ELSE Rat(0, 1)

\* cleaning.rs:80-98: the similarity of the columns i and j (from 0).
Similarity(rws, i, j) ==
    LET matches == Cardinality({r \in 1..Len(rws) :
                        Cell(rws, r, i) = Cell(rws, r, j) /\ ~IsMissing(Cell(rws, r, i))})
        total_valid == Cardinality({r \in 1..Len(rws) : ~IsMissing(Cell(rws, r, i))})
    IN  IF total_valid > 0 THEN FDiv(FromInt(matches), FromInt(total_valid))
        ELSE Rat(0, 1)

\* The pairs with similarity >= 0.9, for > 0.9.
RECURSIVE RedundancyPairs_at_least(_, _, _, _)
RedundancyPairs_at_least(rws, num_cols, i, j) ==
    IF i >= num_cols THEN <<>>
    ELSE IF j >= num_cols THEN RedundancyPairs_at_least(rws, num_cols, i + 1, i + 2)
    ELSE (IF ~FLt(Similarity(rws, i, j), Rat(9, 10))
          THEN << <<i, j, Similarity(rws, i, j)>> >> ELSE <<>>)
         \o RedundancyPairs_at_least(rws, num_cols, i, j + 1)

\* cleaning.rs:77-101: the pairs (i, j, similarity), i < j, in the order of
\* the two loops.
RECURSIVE RedundancyPairs(_, _, _, _)
RedundancyPairs(rws, num_cols, i, j) ==
    IF i >= num_cols THEN <<>>
    ELSE IF j >= num_cols THEN RedundancyPairs(rws, num_cols, i + 1, i + 2)
    ELSE (IF FGt(Similarity(rws, i, j), Rat(9, 10))
          THEN << <<i, j, Similarity(rws, i, j)>> >> ELSE <<>>)
         \o RedundancyPairs(rws, num_cols, i, j + 1)

detect_redundancy(rws, num_cols) == RedundancyPairs(rws, num_cols, 0, 1)

---------------------------------------------------------------------------
(* lib.rs: describe, from the analyses to Description::new                 *)

\* lib.rs:142-335: everything describe computes after the column statistics,
\* up to Description::new.  row[target_idx] at lib.rs:250 indexes every row,
\* and is out of range when the table has no column.
Analyse(rws, hdrs, sts, orders, halves) ==
    LET num_cols == Len(hdrs)
        missing == [c \in 1..num_cols |-> MissingCount(rws, c - 1)]
        total_rows == Len(rws)
        total_cells == total_rows * num_cols
        target_idx == TargetIdx(hdrs)
    IN  IF num_cols = 0 THEN Panic("lib.rs:250")
        ELSE Ok([stats |-> sts,
                 missing |-> missing,
                 duplicates |-> detect_duplicates(rws),
                 outliers |-> [c \in 1..num_cols |-> detect_outliers(rws, c - 1, sts[c])],
                 types |-> [c \in 1..num_cols |-> infer_type(rws, c - 1)],
                 dependency_scores |-> compute_dependency_scores(rws, sts, num_cols),
                 drift_scores |-> detect_drift(rws, sts, num_cols),
                 cardinality |-> compute_cardinality(rws, num_cols),
                 distributions |-> compute_distribution(rws, sts, num_cols),
                 consistency_issues |-> check_consistency(rws, hdrs, num_cols),
                 temporal_patterns |-> detect_temporal_patterns(rws, num_cols),
                 transform_suggestions |-> suggest_transformations(sts),
                 noise_scores |-> estimate_noise(rws, sts, num_cols, halves),
                 redundancy_pairs |-> detect_redundancy(rws, num_cols),
                 total_rows |-> total_rows,
                 missing_pct |-> Percent(SumInts(missing), total_cells),
                 unique_pct |-> Percent(Cardinality(DistinctRows(rws)), total_rows),
                 top_values |-> [c \in 1..num_cols |-> TopValues(rws, hdrs, c - 1, orders[c])],
                 correlations |-> Correlations(rws, sts, num_cols),
                 feature_importance |-> FeatureImportance(rws, sts, num_cols, target_idx),
                 anomalies |-> Anomalies(rws, sts, num_cols, 0)])

---------------------------------------------------------------------------
(* The program: main calls describe, describe calls render_tui             *)

MaxRows == 2

CellTexts == {"", "x", "1", "-1", "NaN"}

HeaderChoices == { <<>>, <<"a">>, <<"a", "b">>, <<"age", "Target">> }

Tables(num_cols) ==
    UNION { [1..nr -> [1..num_cols -> CellTexts]] : nr \in 0..MaxRows }

\* The state after Dataset::new or Dataset::from_csv has built the dataset.
Init ==
    /\ headers \in HeaderChoices
    /\ rows \in Tables(Len(headers))
    /\ pc = "call"
    /\ stats = <<>>
    /\ outliers = <<>>
    /\ types = <<>>
    /\ ret = None
    /\ desc = None
    /\ tui = "off"
    /\ tab_index = 0
    /\ shown = FALSE
    /\ file = None
    /\ prev = None
    /\ out = <<>>
    /\ view = ViewInit

\* lib.rs:130-133: the call of describe and its check of the rows.
DescribeCall ==
    /\ pc = "call"
    /\ IF rows = <<>>
       THEN /\ ret' = Some(Err("EmptyDataset"))
            /\ pc' = "returned"
       ELSE /\ ret' = ret
            /\ pc' = "stats"
    /\ UNCHANGED <<headers, rows, stats, outliers, types, desc, viewerVars, prev, out>>

\* lib.rs:137-140: compute_stats on every column; a panic of one worker
\* unwinds out of describe.
StatsCollected(rs) ==
    IF \A c \in DOMAIN rs : IsOk(rs[c])
    THEN /\ stats' = [c \in DOMAIN rs |-> rs[c].v]
         /\ pc' = "analyses"
         /\ ret' = ret
    ELSE /\ stats' = stats
         /\ pc' = "panicked"
         /\ ret' = Some(rs[CHOOSE c \in DOMAIN rs : ~IsOk(rs[c])])

DescribeStats ==
    /\ pc = "stats"
    /\ StatsCollected([c \in 1..Len(headers) |-> compute_stats(rows, c - 1)])
    /\ UNCHANGED <<headers, rows, outliers, types, desc, viewerVars, prev, out>>

\* lib.rs:142-335: the analyses and Description::new.
Analysed(r) ==
    IF IsOk(r)
    THEN /\ desc' = Some(r.v)
         /\ outliers' = r.v.outliers
         /\ types' = r.v.types
         /\ pc' = "viewer"
         /\ ret' = ret
    ELSE /\ desc' = desc
         /\ outliers' = outliers
         /\ types' = types
         /\ pc' = "panicked"
         /\ ret' = Some(r)

DescribeAnalyses ==
    /\ pc = "analyses"
    /\ \E orders \in HashOrderChoices(rows, Len(headers)),
          halves \in NoiseSplitChoices(rows, Len(headers)) :
          /\ OrdersFit(rows, Len(headers), orders)
          /\ SplitsFit(rows, Len(headers), halves)
          /\ Analysed(Analyse(rows, headers, stats, orders, halves))
    /\ UNCHANGED <<headers, rows, stats, viewerVars, prev, out>>

InViewer == pc \in {"viewer", "viewer_main"}

\* render_tui returns: to describe (lib.rs:337-339), which returns the error
\* or Ok(description), or to main (presto.rs:18-19).
ViewerReturnsAfter(result, key) ==
    /\ tui' = "off"
    /\ tab_index' = 0
    /\ view' = [ViewInit EXCEPT !.key = key, !.overflow_checks = view.overflow_checks]
    /\ IF pc = "viewer"
       THEN /\ pc' = "returned"
            /\ ret' = Some(IF IsOk(result) THEN Ok(desc.v) ELSE result)
       ELSE /\ pc' = IF IsOk(result) THEN "exit" ELSE "exit_err"
            /\ ret' = ret

ViewerReturns(result) == ViewerReturnsAfter(result, None)

\* A panic inside render_tui unwinds out of the program; nothing restores
\* the terminal.
ViewerPanics(at) ==
    /\ tui' = "panicked"
    /\ pc' = "panicked"
    /\ ret' = Some(Panic(at))
    /\ UNCHANGED <<tab_index, view>>

TerminalError == Err("InvalidNumeric")

\* usize::saturating_sub
SatSub(a, b) == IF a > b THEN a - b ELSE 0

Larger(a, b) == IF a > b THEN a ELSE b

Smaller(a, b) == IF a < b THEN a ELSE b

\* tui.rs:50-51 and 231: the inside of content_area (width, height).
ContentWidth(area) == SatSub(area[1], 2)

ContentHeight(area) == SatSub(area[2], 2)

MaxHeight(area) == SatSub(area[2], 4)

\* tui.rs:53-56
StatsHeaderCells ==
    <<"Column", "Mean", "Median", "StdDev", "Variance", "Min", "Max", "Skew", "Kurt">>

StatsWidths == <<15, 10, 10, 10, 10, 10, 10, 10, 10>>

\* tui.rs:190
CorrWidth == 15

\* tui.rs:514 and 518
InfoLines == 12

AdvancedLines == 9

\* tui.rs:76-85 and 194-203: end_col, for the loop that starts at column i
\* with visible_width columns' worth of width taken.
RECURSIVE EndCol(_, _, _, _, _)
EndCol(i, total_cols, visible_width, widths, content_width) ==
    IF i >= total_cols THEN i
    ELSE IF visible_width + widths[i + 1] > content_width THEN i
    ELSE EndCol(i + 1, total_cols, visible_width + widths[i + 1], widths, content_width)

\* s[start..end] is in range.
SliceOk(start, end, len) == start <= end /\ end <= len

\* s[start..end], positions from 0.
Slice(s, start, end) == SubSeq(s, start + 1, end)

\* tui.rs:189-205: end_col of the Correlations tab.
CorrEndCol(v, area, n) ==
    EndCol(v.corr_h_scroll, n + 1, 0, [k \in 1..(n + 1) |-> CorrWidth],
           ContentWidth(area))

\* tui.rs:205 and 213: the header row of the Correlations tab.
CorrHeaderRow(v, area, hdrs) ==
    <<"">> \o Slice(hdrs, SatSub(v.corr_h_scroll, 1),
                   SatSub(CorrEndCol(v, area, Len(hdrs)), 1))

\* tui.rs:207-211: the row of column i (from 0) in the Correlations tab: its
\* name, then description.correlations[i] formatted, each cell kept with the
\* column j it is the correlation with.
CorrDataRow(v, area, hdrs, i) ==
    Slice(<<[kind |-> "name", col |-> i]>>
              \o [j \in 1..Len(hdrs) |-> [kind |-> "corr", col |-> i, with |-> j - 1]],
          v.corr_h_scroll, CorrEndCol(v, area, Len(hdrs)))

\* tui.rs:87-88, 114, 205, 210 and 214: a slice of the draw is out of range.
SlicePanics(tab, v, area, n) ==
    \/ /\ tab = 0
       /\ ~SliceOk(v.table_h_scroll,
                   EndCol(v.table_h_scroll, Len(StatsWidths), 0, StatsWidths,
                          ContentWidth(area)),
                   Len(StatsWidths))
    \/ /\ tab = 3
       /\ \/ ~SliceOk(v.corr_h_scroll, CorrEndCol(v, area, n), n + 1)
          \/ ~SliceOk(SatSub(v.corr_h_scroll, 1), SatSub(CorrEndCol(v, area, n), 1), n)

RECURSIVE Digits(_)
Digits(i) == IF i < 10 THEN 1 ELSE 1 + Digits(i \div 10)

\* format!("{:.1}", mid).len(): the sign, the digits of the whole part of
\* the value rounded to one decimal (ties to even), the point and the
\* decimal.
FormatLen(x) ==
    CASE x.k = "nan" -> 3
      [] x.k = "inf" -> (IF x.s < 0 THEN 4 ELSE 3)
      [] x.k = "rat" ->
           LET whole == AbsInt(x.n) \div x.d
               rest == (AbsInt(x.n) % x.d) * 10
               up == \/ 2 * (rest % x.d) > x.d
                     \/ 2 * (rest % x.d) = x.d /\ (rest \div x.d) % 2 = 1
           IN  (IF x.n < 0 THEN 1 ELSE 0)
               + Digits(IF up /\ rest \div x.d = 9 THEN whole + 1 ELSE whole) + 2

\* The longest label of the bins of one column, width at least.
RECURSIVE MaxLabel(_, _)
MaxLabel(dist, width) ==
    IF dist = <<>> THEN width
    ELSE MaxLabel(Tail(dist), Larger(FormatLen(Head(dist)[1]), width))

\* tui.rs:253-257, 373-377 and 480-484: `mid_str.len() - padding` for a
\* padding that exceeds the length of a label of the column.
Underflows(dist, max_label_width) ==
    \E j \in DOMAIN dist :
        SatSub(max_label_width, FormatLen(dist[j][1])) \div 2 > FormatLen(dist[j][1])

\* tui.rs:232-267: the subtraction underflows while the Plots tab is drawn;
\* max_label_width is that of the column at hand.
DrawUnderflows(dists) ==
    \E c \in DOMAIN dists : Underflows(dists[c], MaxLabel(dists[c], 0))

\* tui.rs:350-389 and 457-496: the subtraction underflows while the Left or
\* Right handler of the Plots tab builds its text; max_label_width starts
\* at 4 and grows from column to column.
RECURSIVE TextUnderflows(_, _, _)
TextUnderflows(dists, c, width) ==
    IF c > Len(dists) THEN FALSE
    ELSE \/ Underflows(dists[c], MaxLabel(dists[c], width))
         \/ TextUnderflows(dists, c + 1, MaxLabel(dists[c], width))

\* tui.rs:300-395: KeyCode::Left.  line_width is max_line_width of the text
\* of the tab.
ScrollLeft(v, tab, n, line_width) ==
    CASE tab = 0 ->
           IF SumInts(StatsWidths) > ContentWidth(v.area) /\ v.table_h_scroll > 0
           THEN [v EXCEPT !.table_h_scroll = @ - 1] ELSE v
      [] tab = 1 ->
           IF line_width > ContentWidth(v.area) /\ v.details_h_scroll > 0
           THEN [v EXCEPT !.details_h_scroll = @ - 1] ELSE v
      [] tab = 2 ->
           IF line_width > ContentWidth(v.area) /\ v.advanced_h_scroll > 0
           THEN [v EXCEPT !.advanced_h_scroll = @ - 1] ELSE v
      [] tab = 3 ->
           IF CorrWidth * (n + 1) > ContentWidth(v.area) /\ v.corr_h_scroll > 0
           THEN [v EXCEPT !.corr_h_scroll = @ - 1] ELSE v
      [] tab = 4 ->
           IF line_width > ContentWidth(v.area) /\ v.plots_h_scroll > 0
           THEN [v EXCEPT !.plots_h_scroll = @ - 1] ELSE v

\* tui.rs:396-503: KeyCode::Right.
ScrollRight(v, tab, n, line_width) ==
    CASE tab = 0 ->
           IF /\ SumInts(StatsWidths) > ContentWidth(v.area)
              /\ v.table_h_scroll
                    < SatSub(Len(StatsWidths), Larger(ContentWidth(v.area) \div 10, 1))
           THEN [v EXCEPT !.table_h_scroll = @ + 1] ELSE v
      [] tab = 1 ->
           IF /\ line_width > ContentWidth(v.area)
              /\ v.details_h_scroll < SatSub(line_width, ContentWidth(v.area)) % 65536
           THEN [v EXCEPT !.details_h_scroll = @ + 1] ELSE v
      [] tab = 2 ->
           IF /\ line_width > ContentWidth(v.area)
              /\ v.advanced_h_scroll < SatSub(line_width, ContentWidth(v.area)) % 65536
           THEN [v EXCEPT !.advanced_h_scroll = @ + 1] ELSE v
      [] tab = 3 ->
           IF /\ CorrWidth * (n + 1) > ContentWidth(v.area)
              /\ v.corr_h_scroll
                    < SatSub(n + 1, Larger(ContentWidth(v.area) \div CorrWidth, 1))
           THEN [v EXCEPT !.corr_h_scroll = @ + 1] ELSE v
      [] tab = 4 ->
           IF /\ line_width > ContentWidth(v.area)
              /\ v.plots_h_scroll < SatSub(line_width, ContentWidth(v.area)) % 65536
           THEN [v EXCEPT !.plots_h_scroll = @ + 1] ELSE v

\* tui.rs:507-511 and 522-526: the selection one row up.
SelectUp(state, n) ==
    Some(IF state.some THEN SatSub(state.v, 1) ELSE SatSub(n, 1))

\* tui.rs:539-543 and 556-560: the selection one row down.
SelectDown(state, n) ==
    Some(IF state.some THEN Smaller(state.v + 1, n - 1) ELSE 0)

\* tui.rs:530 and 564: plot_lines
PlotLines(area, n) == n * (MaxHeight(area) + 2)

\* tui.rs:504-535: KeyCode::Up.
ScrollUp(v, tab, n) ==
    CASE tab = 0 ->
           IF n > ContentHeight(v.area)
           THEN [v EXCEPT !.table_state = SelectUp(@, n)] ELSE v
      [] tab = 1 ->
           IF InfoLines > ContentHeight(v.area) /\ v.details_v_scroll > 0
           THEN [v EXCEPT !.details_v_scroll = @ - 1] ELSE v
      [] tab = 2 ->
           IF AdvancedLines > ContentHeight(v.area) /\ v.advanced_v_scroll > 0
           THEN [v EXCEPT !.advanced_v_scroll = @ - 1] ELSE v
      [] tab = 3 ->
           IF n > ContentHeight(v.area)
           THEN [v EXCEPT !.corr_state = SelectUp(@, n)] ELSE v
      [] tab = 4 ->
           IF PlotLines(v.area, n) > ContentHeight(v.area) /\ v.plots_v_scroll > 0
           THEN [v EXCEPT !.plots_v_scroll = @ - 1] ELSE v

\* tui.rs:536-570: KeyCode::Down.
ScrollDown(v, tab, n) ==
    CASE tab = 0 ->
           IF n > ContentHeight(v.area)
           THEN [v EXCEPT !.table_state = SelectDown(@, n)] ELSE v
      [] tab = 1 ->
           IF /\ InfoLines > ContentHeight(v.area)
              /\ v.details_v_scroll < SatSub(InfoLines, ContentHeight(v.area))
           THEN [v EXCEPT !.details_v_scroll = @ + 1] ELSE v
      [] tab = 2 ->
           IF /\ AdvancedLines > ContentHeight(v.area)
              /\ v.advanced_v_scroll < SatSub(AdvancedLines, ContentHeight(v.area))
           THEN [v EXCEPT !.advanced_v_scroll = @ + 1] ELSE v
      [] tab = 3 ->
           IF n > ContentHeight(v.area)
           THEN [v EXCEPT !.corr_state = SelectDown(@, n)] ELSE v
      [] tab = 4 ->
           IF /\ PlotLines(v.area, n) > ContentHeight(v.area)
              /\ v.plots_v_scroll
                    < SatSub(PlotLines(v.area, n), ContentHeight(v.area)) % 65536
           THEN [v EXCEPT !.plots_v_scroll = @ + 1] ELSE v

\* tui.rs:300-570: the locals after an arrow key.
Scrolled(v, tab, key, n, line_width) ==
    CASE key = "Left" -> ScrollLeft(v, tab, n, line_width)
      [] key = "Right" -> ScrollRight(v, tab, n, line_width)
      [] key = "Up" -> ScrollUp(v, tab, n)
      [] key = "Down" -> ScrollDown(v, tab, n)

\* tui.rs:19-34: the terminal is set up and the viewer's state initialised.
ViewerSetup ==
    /\ InViewer
    /\ tui = "off"
    /\ \E io_ok \in BOOLEAN :
          IF io_ok
          THEN /\ tui' = "draw"
               /\ tab_index' = 0
               /\ view' = [ViewInit EXCEPT !.overflow_checks = view.overflow_checks]
               /\ UNCHANGED <<pc, ret>>
          ELSE ViewerReturns(TerminalError)
    /\ UNCHANGED <<headers, rows, stats, outliers, types, desc, shown, file, prev, out>>

\* The builds the program may be: either while no subtraction has
\* underflowed, the one that let it wrap afterwards.
Builds(v) == IF v.overflow_checks.some THEN {v.overflow_checks.v} ELSE BOOLEAN

\* tui.rs:37-287: the terminal's size is read and one frame is drawn on a
\* content_area of areas.  A usize subtraction that underflows panics in a
\* build with overflow checks and wraps in a build without, where the
\* saturating_sub it feeds gives 0.
ViewerDrawOn(areas) ==
    /\ InViewer
    /\ tui = "draw"
    /\ \/ /\ ViewerReturns(TerminalError)
          /\ UNCHANGED shown
       \/ \E area \in areas, overflow_checks \in Builds(view) :
             IF SlicePanics(tab_index, view, area, Len(headers))
             THEN /\ ViewerPanics("tui.rs:87")
                  /\ UNCHANGED shown
             ELSE IF tab_index = 4 /\ DrawUnderflows(desc.v.distributions)
             THEN IF overflow_checks
                  THEN /\ ViewerPanics("tui.rs:257")
                       /\ UNCHANGED shown
                  ELSE /\ tui' = "read"
                       /\ shown' = TRUE
                       /\ view' = [view EXCEPT !.area = area, !.key = None,
                                               !.overflow_checks = Some(FALSE)]
                       /\ UNCHANGED <<pc, ret, tab_index>>
             ELSE /\ tui' = "read"
                  /\ shown' = TRUE
                  /\ view' = [view EXCEPT !.area = area, !.key = None]
                  /\ UNCHANGED <<pc, ret, tab_index>>
    /\ UNCHANGED <<headers, rows, stats, outliers, types, desc, file, prev, out>>

\* The content_area of a terminal of 80 columns and 24 lines.
TerminalAreas == { <<78, 13>> }

ViewerDraw == ViewerDrawOn(TerminalAreas)

Keys == {"q", "e", "Tab", "BackTab", "other"}

ArrowKeys == {"Left", "Right", "Up", "Down"}

MaxMoves == 2

\* The widths the longest line of a text tab may have: the model does not
\* render the text.
LineWidths == {20, 120}

\* tui.rs:293-296: the file after an export that failed: as it was when
\* the serialisation or the opening of the file failed, cut short when the
\* write failed after the file was opened.
FailedWrites(f) == {f, Some([kind |-> "truncated"])}

\* A handler that resets the offsets it should leave alone.
AfterKey_reset(v, key) ==
    [ViewInit EXCEPT !.key = Some(key), !.area = v.area, !.moves = v.moves,
                     !.overflow_checks = v.overflow_checks]

\* tui.rs:291-299 and 571: the locals after a key that is no arrow; key
\* remembers the event handled last.
AfterKey(v, key) == [v EXCEPT !.key = Some(key)]

\* tui.rs:290-572: the event is a press of key; "other" stands for every
\* event the match does not name.
KeyPressed(key) ==
    CASE key = "q" ->
           /\ tui' = "leave"
           /\ view' = AfterKey(view, key)
           /\ UNCHANGED <<pc, ret, tab_index, file>>
      [] key = "e" ->
           \E io_ok \in BOOLEAN :
              IF io_ok
              THEN /\ file' = Some(desc.v)
                   /\ tui' = "draw"
                   /\ view' = AfterKey(view, key)
                   /\ UNCHANGED <<pc, ret, tab_index>>
              ELSE /\ ViewerReturnsAfter(TerminalError, Some(key))
                   /\ \E written \in FailedWrites(file) : file' = written
      [] key = "Tab" ->
           /\ tab_index' = (tab_index + 1) % 5
           /\ tui' = "draw"
           /\ view' = AfterKey(view, key)
           /\ UNCHANGED <<pc, ret, file>>
      [] key = "BackTab" ->
           /\ tab_index' = (tab_index + 4) % 5
           /\ tui' = "draw"
           /\ view' = AfterKey(view, key)
           /\ UNCHANGED <<pc, ret, file>>
      [] key \in ArrowKeys ->
           /\ view.moves < MaxMoves
           /\ \E line_width \in LineWidths, overflow_checks \in Builds(view) :
                 IF /\ tab_index = 4
                    /\ key \in {"Left", "Right"}
                    /\ TextUnderflows(desc.v.distributions, 1, 4)
                 THEN IF overflow_checks
                      THEN ViewerPanics(IF key = "Left" THEN "tui.rs:377" ELSE "tui.rs:484")
                      ELSE /\ view' = [Scrolled(view, tab_index, key, Len(headers), line_width)
                                          EXCEPT !.key = Some(key), !.moves = @ + 1,
                                                 !.overflow_checks = Some(FALSE)]
                           /\ tui' = "draw"
                           /\ UNCHANGED <<pc, ret, tab_index>>
                 ELSE /\ view' = [Scrolled(view, tab_index, key, Len(headers), line_width)
                                     EXCEPT !.key = Some(key), !.moves = @ + 1]
                      /\ tui' = "draw"
                      /\ UNCHANGED <<pc, ret, tab_index>>
           /\ UNCHANGED file
      [] OTHER ->
           /\ tui' = "draw"
           /\ view' = AfterKey(view, key)
           /\ UNCHANGED <<pc, ret, tab_index, file>>

\* tui.rs:289-573: event::read() blocks until the terminal has an event;
\* the event, a key of keys, is handled.
ViewerEventOf(keys) ==
    /\ InViewer
    /\ tui = "read"
    /\ \/ /\ ViewerReturns(TerminalError)
          /\ UNCHANGED file
       \/ \E key \in keys : KeyPressed(key)
    /\ UNCHANGED <<headers, rows, stats, outliers, types, desc, shown, prev, out>>

ViewerEvent == ViewerEventOf(Keys)

\* tui.rs:576-580: the terminal is restored and render_tui returns.
ViewerLeave ==
    /\ InViewer
    /\ tui = "leave"
    /\ \E io_ok \in BOOLEAN : ViewerReturns(IF io_ok THEN Ok("unit") ELSE TerminalError)
    /\ UNCHANGED <<headers, rows, stats, outliers, types, desc, shown, file, prev, out>>

\* presto.rs:17-19: main propagates an error of describe, and calls
\* render_tui itself after a describe that succeeded.
MainContinues ==
    /\ pc = "returned"
    /\ pc' = IF IsOk(ret.v) THEN "viewer_main" ELSE "exit_err"
    /\ UNCHANGED <<headers, rows, stats, outliers, types, ret, desc, viewerVars, prev, out>>

Describe == DescribeCall \/ DescribeStats \/ DescribeAnalyses

Viewer == ViewerSetup \/ ViewerDraw \/ ViewerEvent \/ ViewerLeave

Next == Describe \/ Viewer \/ MainContinues

Spec == Init /\ [][Next]_vars

\* A caller of the library that calls describe a second time on the same
\* dataset, keeping what the first call returned.
CallAgain ==
    /\ pc = "returned"
    /\ ~prev.some
    /\ prev' = ret
    /\ ret' = None
    /\ desc' = None
    /\ stats' = <<>>
    /\ outliers' = <<>>
    /\ types' = <<>>
    /\ pc' = "call"
    /\ UNCHANGED <<headers, rows, viewerVars, out>>

NextLibrary == Describe \/ Viewer \/ CallAgain

SpecLibrary == Init /\ [][NextLibrary]_vars

\* The profiling pass alone: describe from its call to Description::new,
\* lib.rs:130-335.
SpecProfile == Init /\ [][Describe]_vars

---------------------------------------------------------------------------
(* The viewer called on its own: every key, on terminals of several sizes  *)

\* The headers and the rows of the datasets the viewer is called with: two
\* columns that mirror each other, three columns of which one holds no
\* number, one column whose bins have labels of 3 to 11 characters, and a
\* column with labels of 11 characters before one with labels of 3.
ViewerTables ==
    { << <<"a", "b">>, << <<"1", "-1">>, <<"-1", "1">> >> >>,
      << <<"a", "Target", "b">>, << <<"1", "x", "-1">>, <<"-1", "x", "1">> >> >>,
      << <<"c0">>, << <<"-95000000">>, <<"5000000">> >> >>,
      << <<"w", "n">>, << <<"-95000000", "1">>, <<"-15000000", "2">> >> >> }

\* lib.rs:168 and stats.rs:195-219: description.distributions, with the min
\* and the max compute_stats takes from the sorted values (stats.rs:53-54).
ViewedDistribution(values, sorted) ==
    IF values = <<>> THEN <<>>
    ELSE DistributionOf(values, sorted[1], sorted[Len(sorted)])

\* The Description of a dataset, as far as the control flow of render_tui
\* depends on it.
ViewedDescription(rws, num_cols) ==
    [distributions |->
        [c \in 1..num_cols |->
            ViewedDistribution(NumericValues(rws, c - 1),
                               SortAsc(NumericValues(rws, c - 1)))]]

\* content_area on a terminal too small for any cell, on a terminal that
\* shows two columns and on a terminal that shows every column.
Areas == { <<2, 2>>, <<32, 20>>, <<100, 20>> }

\* presto.rs:18: main calls render_tui with the dataset and its Description.
InitViewer ==
    /\ \E ht \in ViewerTables :
          /\ headers = ht[1]
          /\ rows = ht[2]
          /\ desc = Some(ViewedDescription(ht[2], Len(ht[1])))
    /\ pc = "viewer_main"
    /\ stats = <<>>
    /\ outliers = <<>>
    /\ types = <<>>
    /\ ret = None
    /\ tui = "off"
    /\ tab_index = 0
    /\ shown = FALSE
    /\ file = None
    /\ prev = None
    /\ out = <<>>
    /\ view = ViewInit

DrawAnyArea == ViewerDrawOn(Areas)

AnyKey == ViewerEventOf(Keys \cup ArrowKeys)

NextViewer == ViewerSetup \/ DrawAnyArea \/ AnyKey \/ ViewerLeave

SpecViewer == InitViewer /\ [][NextViewer]_vars

---------------------------------------------------------------------------
(* The analyses called on their own, on tables of several shapes           *)

\* n copies of the row row.
Repeat(row, n) == [r \in 1..n |-> row]

\* The table of the duplicate-detection example of the documentation.
DuplicatesExample == << <<"a", "1">>, <<"a", "1">>, <<"b", "2">> >>

MaxMatching == 11

MaxOther == 1

\* Two-column tables made of rows whose two cells match, rows whose cells
\* differ, rows with the first cell missing and rows with the second one
\* missing.
RedundancyExamples ==
    { Repeat(<<"1", "1">>, m) \o Repeat(<<"1", "x">>, d)
          \o Repeat(<<"", "1">>, e) \o Repeat(<<"1", "">>, f) :
        m \in 0..MaxMatching, d \in 0..MaxOther, e \in 0..MaxOther, f \in 0..MaxOther }
    \ { <<>> }

\* A target column, a column that follows it loosely, a constant column and
\* a column that follows it exactly.
ImportanceExample ==
    << <<"1", "1", "1", "1">>, <<"2", "1", "1", "2">>, <<"3", "2", "1", "3">> >>

DistributionTexts == {"", "x", "0", "50", "100", "inf"}

PairTexts == {"1", "-1", "x"}

\* The headers and the rows of the tables the analyses are called on.
AnalysisTables ==
    {<<h, t>> : h \in {<<"c0">>},
                t \in UNION {[1..n -> [1..1 -> DistributionTexts]] : n \in 1..MaxLen}}
    \cup {<<h, t>> : h \in {<<"a", "b">>},
                     t \in UNION {[1..n -> [1..2 -> CellTexts]] : n \in 1..MaxRows}
                           \cup RedundancyExamples \cup {DuplicatesExample}}
    \cup {<<h, t>> : h \in {<<"a", "Target", "b">>},
                     t \in UNION {[1..n -> [1..3 -> PairTexts]] : n \in 1..MaxRows}}
    \cup {<< <<"Target", "a", "b", "c">>, ImportanceExample >>}

InitAnalyses ==
    /\ \E ht \in AnalysisTables : headers = ht[1] /\ rows = ht[2]
    /\ pc = "stats"
    /\ stats = <<>>
    /\ outliers = <<>>
    /\ types = <<>>
    /\ ret = None
    /\ desc = None
    /\ tui = "off"
    /\ tab_index = 0
    /\ shown = FALSE
    /\ file = None
    /\ prev = None
    /\ out = <<>>
    /\ view = ViewInit

\* An analysis has returned: its results are kept under their names, and
\* the next analysis is step.
Returned(results, step) ==
    /\ out' = results @@ out
    /\ pc' = step
    /\ UNCHANGED <<headers, rows, stats, outliers, types, ret, desc, viewerVars, prev>>

\* lib.rs:153
CallDetectDuplicates ==
    /\ pc = "analyses"
    /\ Returned([duplicates |-> detect_duplicates(rows)], "dependency")

\* lib.rs:165
CallComputeDependencyScores ==
    /\ pc = "dependency"
    /\ Returned([dependency_scores |->
                    compute_dependency_scores(rows, stats, Len(headers))],
                "distribution")

\* lib.rs:168
CallComputeDistribution ==
    /\ pc = "distribution"
    /\ Returned([distributions |-> compute_distribution(rows, stats, Len(headers))],
                "redundancy")

\* lib.rs:173
CallDetectRedundancy ==
    /\ pc = "redundancy"
    /\ Returned([redundancy_pairs |-> detect_redundancy(rows, Len(headers))],
                "unique")

\* lib.rs:175-179
CountUniqueRows ==
    /\ pc = "unique"
    /\ Returned([total_rows |-> Len(rows),
                 unique_pct |-> Percent(Cardinality(DistinctRows(rows)), Len(rows))],
                "importance")

\* lib.rs:242-290
RankFeatures ==
    /\ pc = "importance"
    /\ Returned([feature_importance |->
                    FeatureImportance(rows, stats, Len(headers), TargetIdx(headers))],
                "done")

NextAnalyses ==
    \/ DescribeStats
    \/ CallDetectDuplicates
    \/ CallComputeDependencyScores
    \/ CallComputeDistribution
    \/ CallDetectRedundancy
    \/ CountUniqueRows
    \/ RankFeatures

SpecAnalyses == InitAnalyses /\ [][NextAnalyses]_vars

---------------------------------------------------------------------------
(* The top values of describe, on tables of texts that repeat              *)

TopTexts == {"", "NA", "a", "b"}

\* A column with six distinct values, two of them twice, and two missing
\* cells.
TopValuesExample ==
    AsRows(<<"a", "b", "b", "x", "true", "NA", "True", "false", "", "x">>)

TopValuesTables ==
    {<<h, t>> : h \in {<<"c0">>},
                t \in UNION {[1..n -> [1..1 -> TopTexts]] : n \in 1..MaxLen}
                      \cup {TopValuesExample}}
    \cup {<<h, t>> : h \in {<<"a", "b">>},
                     t \in UNION {[1..n -> [1..2 -> TopTexts]] : n \in 1..MaxRows}}

InitTopValues ==
    /\ \E ht \in TopValuesTables : headers = ht[1] /\ rows = ht[2]
    /\ pc = "top_values"
    /\ stats = <<>>
    /\ outliers = <<>>
    /\ types = <<>>
    /\ ret = None
    /\ desc = None
    /\ tui = "off"
    /\ tab_index = 0
    /\ shown = FALSE
    /\ file = None
    /\ prev = None
    /\ out = <<>>
    /\ view = ViewInit

\* lib.rs:181-199, with one iteration order for the counts map of each
\* column.
CountTopValues ==
    /\ pc = "top_values"
    /\ \E orders \in HashOrderChoices(rows, Len(headers)) :
          /\ OrdersFit(rows, Len(headers), orders)
          /\ Returned([top_values |->
                          [c \in 1..Len(headers) |->
                              TopValues(rows, headers, c - 1, orders[c])]],
                      "done")

SpecTopValues == InitTopValues /\ [][CountTopValues]_vars

---------------------------------------------------------------------------
(* describe's parallel iterators, worker by worker                         *)

\* The results in the order in which the workers came to an end.
Collect_as_finished(slots, finished) == [k \in 1..Len(finished) |-> slots[finished[k]]]

\* collect() of a rayon parallel iterator: the results of the workers, each
\* at the position of the item it was given, whatever the order `finished`
\* in which the workers came to an end.
Collect(slots, finished) == [k \in 1..Len(finished) |-> slots[k]]

RECURSIVE Flatten(_)
Flatten(seqs) == IF seqs = <<>> THEN <<>> ELSE Head(seqs) \o Flatten(Tail(seqs))

\* Twenty-one rows of two columns, each column with two cells that lie more
\* than three standard deviations from its mean.
OutlierExample ==
    [r \in 1..21 |-> <<IF r \in {2, 12} THEN "1" ELSE "0",
                       IF r \in {5, 20} THEN "1" ELSE "0">>]

MaxSpike == 11

\* n rows of two columns: the first holds "0" but for a "1" in row p, the
\* second holds other in every row but the first, where it holds "x".
SpikeTable(n, p, other) ==
    [r \in 1..n |-> <<IF r = p THEN "1" ELSE "0", IF r = 1 THEN "x" ELSE other>>]

SpikeTables ==
    {SpikeTable(n, p, other) : n \in 1..MaxSpike, p \in 1..MaxSpike, other \in {"x", "2"}}

WorkerTables ==
    UNION {[1..n -> [1..2 -> CellTexts]] : n \in 1..MaxRows}
    \cup {OutlierExample} \cup SpikeTables

\* No worker of the parallel iterator at hand has come to an end.
NoneFinished(late) == [slots |-> <<>>, finished |-> <<>>, late |-> late]

InitWorkers ==
    /\ headers = <<"a", "b">>
    /\ rows \in WorkerTables
    /\ pc = "par_stats"
    /\ stats = <<>>
    /\ outliers = <<>>
    /\ types = <<>>
    /\ ret = None
    /\ desc = None
    /\ tui = "off"
    /\ tab_index = 0
    /\ shown = FALSE
    /\ file = None
    /\ prev = None
    /\ out = NoneFinished(FALSE)
    /\ view = ViewInit

\* The worker of column c (from 1) comes to an end with result; late says
\* that a part of its own work ended out of order.  out.late keeps whether
\* any worker has ended before one of a lower index.
Finish(c, result, late) ==
    /\ c \notin DOMAIN out.slots
    /\ out' = [slots |-> out.slots @@ (c :> result),
               finished |-> Append(out.finished, c),
               late |-> \/ out.late
                        \/ late
                        \/ \E b \in 1..(c - 1) : b \notin DOMAIN out.slots]

AllFinished == DOMAIN out.slots = 1..Len(headers)

\* lib.rs:137-140: the worker of one column.
StatsWorker ==
    /\ pc = "par_stats"
    /\ \E c \in 1..Len(headers) : Finish(c, compute_stats(rows, c - 1), FALSE)
    /\ UNCHANGED <<headers, rows, pc, stats, outliers, types, ret, desc, viewerVars, prev>>

\* lib.rs:140: collect::<Result<_, _>>()?, once every worker has ended.
StatsJoin ==
    /\ pc = "par_stats"
    /\ AllFinished
    /\ StatsCollected(Collect(out.slots, out.finished))
    /\ out' = NoneFinished(out.late)
    /\ UNCHANGED <<headers, rows, outliers, types, desc, viewerVars, prev>>

\* cleaning.rs:22-38: rows.par_iter().enumerate().filter_map(..).collect()
\* of the worker of column c, the rows split after row s in two parts that
\* end in the order `order`.
SplitOutliers(c, s, order) ==
    Flatten(Collect(<<OutlierRows(SubSeq(rows, 1, s), c - 1,
                                  stats[c].mean.v, stats[c].std_dev.v, 1),
                      OutlierRows(rows, c - 1,
                                  stats[c].mean.v, stats[c].std_dev.v, s + 1)>>,
                    order))

\* lib.rs:155-158: the worker of one column, detect_outliers.
OutliersWorker ==
    /\ pc = "analyses"
    /\ \E c \in 1..Len(headers) :
          IF ~stats[c].mean.some \/ ~stats[c].std_dev.some
          THEN Finish(c, <<>>, FALSE)
          ELSE \E s \in 0..Len(rows), order \in {<<1, 2>>, <<2, 1>>} :
                  Finish(c, SplitOutliers(c, s, order), order[1] = 2)
    /\ UNCHANGED <<headers, rows, pc, stats, outliers, types, ret, desc, viewerVars, prev>>

\* lib.rs:158: collect(), once every worker has ended.
OutliersJoin ==
    /\ pc = "analyses"
    /\ AllFinished
    /\ outliers' = Collect(out.slots, out.finished)
    /\ pc' = "par_anomalies"
    /\ out' = NoneFinished(out.late)
    /\ UNCHANGED <<headers, rows, stats, types, ret, desc, viewerVars, prev>>

\* lib.rs:292-310: the worker of one column.
AnomaliesWorker ==
    /\ pc = "par_anomalies"
    /\ \E c \in 1..Len(headers) : Finish(c, ColumnAnomalies(rows, stats, c - 1), FALSE)
    /\ UNCHANGED <<headers, rows, pc, stats, outliers, types, ret, desc, viewerVars, prev>>

\* lib.rs:294-311: collect() of the flat_map, once every worker has ended.
AnomaliesJoin ==
    /\ pc = "par_anomalies"
    /\ AllFinished
    /\ out' = [slots |-> <<>>, finished |-> <<>>, late |-> out.late,
               anomalies |-> Flatten(Collect(out.slots, out.finished))]
    /\ pc' = "done"
    /\ UNCHANGED <<headers, rows, stats, outliers, types, ret, desc, viewerVars, prev>>

NextWorkers ==
    \/ StatsWorker
    \/ StatsJoin
    \/ OutliersWorker
    \/ OutliersJoin
    \/ AnomaliesWorker
    \/ AnomaliesJoin

SpecWorkers == InitWorkers /\ [][NextWorkers]_vars

---------------------------------------------------------------------------
(* Claims                                                                  *)

\* C1: describe returns Ok(Description) for every dataset with at least one
\* row, and Err(EmptyDataset) for every dataset without rows.
C1_OkExactlyOnRows ==
    ret.some =>
        IF rows = <<>> THEN ret.v = Err("EmptyDataset") ELSE IsOk(ret.v)

\* C2: the only error describe returns is EmptyDataset, and when it returns
\* an error no analysis has run, no Description exists, the viewer was never
\* shown and no file was written.
C2_ErrorBeforeAnyOutput ==
    (ret.some /\ ret.v.kind = "Err") =>
        /\ ret.v.e = "EmptyDataset"
        /\ stats = <<>>
        /\ ~desc.some
        /\ ~shown
        /\ ~file.some

\* C3: describe never blocks waiting on an external event: inside describe
\* the program is never stopped in event::read waiting for a key press.
C3_DescribeNeverWaitsForKey == ~(pc = "viewer" /\ tui = "read")

\* The Description without its noise_scores.
ExceptNoise(d) == [f \in DOMAIN d \ {"noise_scores"} |-> d[f]]

\* C4: two calls of describe on the same table return the same values in
\* every field of the Description but noise_scores.
C4_SecondCallSameDescription ==
    (pc = "returned" /\ prev.some /\ IsOk(prev.v) /\ IsOk(ret.v)) =>
        ExceptNoise(prev.v.v) = ExceptNoise(ret.v.v)

SixValues == <<"1", "2", "3", "4", "5", "100">>

\* C5 as stated: for the column 1, 2, 3, 4, 5, 100 the outlier index set is
\* exactly {5}.
C5_HundredIsTheOutlier ==
    (rows = AsRows(SixValues) /\ outliers # <<>>) => outliers[1] = <<5>>

\* C5 as amended: for the column 1, 2, 3, 4, 5, 100, with the mean and the
\* standard deviation compute_stats gives, detect_outliers flags no row.
C5_NoOutlierAmongSix ==
    (rows = AsRows(SixValues) /\ outliers # <<>>) => outliers[1] = <<>>

\* detect_outliers has run on the column 1, 2, 3, 4, 5, 100.
C5_Witness == rows = AsRows(SixValues) /\ outliers # <<>>

\* The non-missing cells of the one column of a one-column table.
Present == {rows[r][1] : r \in 1..Len(rows)} \ {"", "NA"}

\* C6: infer_type returns Integer for a column whose non-missing values all
\* parse as integers and are not all in the boolean set, Float for
\* ["1.5", "2.0"] and Boolean for ["true", "0", "1"].
C6_IntegerBeforeFloat ==
    types # <<>> =>
        /\ ((\A v \in Present : IsOk(parse_i64(v))) /\ (\E v \in Present : ~IsBoolText(v)))
              => types[1] = "Integer"
        /\ rows = AsRows(<<"1.5", "2.0">>) => types[1] = "Float"
        /\ rows = AsRows(<<"true", "0", "1">>) => types[1] = "Boolean"

\* C7: infer_type returns Mixed for a column whose cells are all missing,
\* and for a table without rows.
C7_AllMissingIsMixed ==
    (types # <<>> /\ Present = {}) => types[1] = "Mixed"

\* C8: compute_stats returns a ColumnStats for every column, whatever its
\* cells hold: it never panics and never returns an error.
C8_ComputeStatsIsTotal == ret.some => IsOk(ret.v)

\* C9: mean, median, min, max, std_dev and variance are None together when
\* the column has no numeric value and Some together otherwise; skewness and
\* kurtosis are None exactly when it has none or its std_dev is 0, which is
\* so for every column with a single numeric value.
C9_NoneTogetherAndZeroStdDev ==
    stats # <<>> =>
        LET st == stats[1]
            n == Len(StatsValues(rows, 0))
            zero_std == st.std_dev.some /\ FEq(st.std_dev.v, Rat(0, 1))
        IN  /\ \A f \in {"mean", "median", "min", "max", "std_dev", "variance"} :
                  st[f].some <=> n > 0
            /\ ~st.skewness.some <=> (n = 0 \/ zero_std)
            /\ ~st.kurtosis.some <=> (n = 0 \/ zero_std)
            /\ n = 1 => zero_std

\* C10: in every Description correlations[i][i] == 1.0 and
\* correlations[i][j] == correlations[j][i], for all columns i and j.
C10_CorrelationsSymmetric ==
    desc.some =>
        \A i, j \in 1..Len(headers) :
            /\ FEq(desc.v.correlations[i][i], Rat(1, 1))
            /\ FEq(desc.v.correlations[i][j], desc.v.correlations[j][i])

\* The non-missing cells of column c (from 1) that do not parse as a number.
OtherCells(c) ==
    {r \in 1..Len(rows) : /\ rows[r][c] \notin {"", "NA"}
                          /\ ~IsOk(parse_f64(rows[r][c]))}

\* C11: for every column of a profiled table, missing[i] plus the number of
\* values compute_stats uses plus the number of non-missing cells that do not
\* parse as a number is total_rows, and the values compute_stats uses are the
\* values the distribution, drift, correlation and anomaly computations use.
C11_CellsPartition ==
    desc.some =>
        \A c \in 1..Len(headers) :
            /\ desc.v.missing[c] + Len(StatsValues(rows, c - 1))
                  + Cardinality(OtherCells(c)) = desc.v.total_rows
            /\ StatsValues(rows, c - 1) = NumericValues(rows, c - 1)

\* A profiled table with a column that has a missing cell and a numeric one,
\* and a column that has a cell of the third class.
C11_Witness ==
    /\ desc.some
    /\ \E c \in 1..Len(headers) :
          desc.v.missing[c] = 1 /\ Len(StatsValues(rows, c - 1)) = 1
    /\ \E c \in 1..Len(headers) : OtherCells(c) # {}

PerColumnFields ==
    {"stats", "missing", "outliers", "types", "dependency_scores",
     "drift_scores", "cardinality", "distributions", "consistency_issues",
     "temporal_patterns", "transform_suggestions", "noise_scores",
     "top_values", "correlations"}

\* C12: every per-column array of a Description has headers.len() entries,
\* entry i describes column i (top_values[i] carries headers[i]), and
\* correlations has headers.len() rows of headers.len() entries.
C12_PerColumnArrays ==
    desc.some =>
        LET n == Len(headers)
        IN  /\ \A f \in PerColumnFields : DOMAIN desc.v[f] = 1..n
            /\ \A i \in 1..n :
                  /\ DOMAIN desc.v.correlations[i] = 1..n
                  /\ desc.v.top_values[i][1] = headers[i]
                  /\ desc.v.stats[i] = stats[i]
                  /\ desc.v.types[i] = infer_type(rows, i - 1)
                  /\ desc.v.cardinality[i] = Cardinality({rows[r][i] : r \in 1..Len(rows)})

\* A Description of a table with two columns of different names.
C12_Witness == desc.some /\ Len(headers) = 2 /\ headers[1] # headers[2]

\* C16: for i # j, correlations[i][j] is computed only from pairs of cells of
\* the same row that both parse as numbers: where the entry is computed (the
\* two value lists have the same length and are not empty), every pair of
\* the zip takes its two values from one row.
C16_PairsShareARow ==
    desc.some =>
        \A i, j \in 1..Len(headers) :
            (/\ i # j
             /\ NumericValues(rows, i - 1) # <<>>
             /\ Len(NumericValues(rows, i - 1)) = Len(NumericValues(rows, j - 1)))
            => \A k \in DOMAIN ZipRows(rows, i - 1, j - 1) :
                  ZipRows(rows, i - 1, j - 1)[k][1] = ZipRows(rows, i - 1, j - 1)[k][2]

\* The numeric values of column c (from 1) in the rows [0, len/2), and in
\* the rows [len/2, len).
FirstHalf(c) == NumericValues(SubSeq(rows, 1, Len(rows) \div 2), c - 1)

SecondHalf(c) == NumericValues(SubSeq(rows, Len(rows) \div 2 + 1, Len(rows)), c - 1)

\* C17: detect_drift never divides by zero: the score of a column is 0 when
\* a half of the rows has no numeric value in it, the divisor is not zero
\* otherwise, and every score is a finite number.
C17_DriftIsFinite ==
    desc.some =>
        \A c \in 1..Len(headers) :
            /\ (FirstHalf(c) = <<>> \/ SecondHalf(c) = <<>>)
                  => FEq(desc.v.drift_scores[c], Rat(0, 1))
            /\ (FirstHalf(c) # <<>> /\ SecondHalf(c) # <<>>)
                  => ~IsZero(unwrap_or(stats[c].std_dev, FromInt(1)))
            /\ IsFinite(desc.v.drift_scores[c])

\* The rows that differ in a cell from every row above them: one for each
\* distinct row.
FirstOccurrences ==
    {r \in 1..Len(rows) :
        \A q \in 1..(r - 1) : \E c \in 1..Len(headers) : rows[q][c] # rows[r][c]}

\* C13: detect_duplicates is the number of rows minus the number of distinct
\* rows, unique_pct is (total_rows - duplicates) / total_rows * 100, and the
\* rows [a,1], [a,1], [b,2] have one duplicate.
C13_DuplicatesCountRepeats ==
    pc = "done" =>
        /\ out.duplicates + Cardinality(FirstOccurrences) = out.total_rows
        /\ out.total_rows = Len(rows)
        /\ out.unique_pct =
              FMul(FDiv(FromInt(out.total_rows - out.duplicates),
                        FromInt(out.total_rows)), FromInt(100))
        /\ rows = DuplicatesExample => out.duplicates = 1

\* The analyses have run on the rows [a,1], [a,1], [b,2].
C13_Witness == pc = "done" /\ rows = DuplicatesExample /\ out.duplicates = 1

\* A cell that is neither empty nor NA.
NonMissing(cell) == cell \notin {"", "NA"}

\* The rows where column i (from 1) has a non-missing cell.
ValidRows(i) == {r \in 1..Len(rows) : NonMissing(rows[r][i])}

\* The rows where the columns i and j hold the same non-missing string.
MatchingRows(i, j) == {r \in ValidRows(i) : rows[r][i] = rows[r][j]}

\* detect_redundancy has reported the pair of the columns i and j (from 1)
\* with the similarity sim.
ReportedWith(i, j, sim) ==
    \E k \in DOMAIN out.redundancy_pairs :
        out.redundancy_pairs[k] = <<i - 1, j - 1, sim>>

\* C14 as stated: any two columns i < j that are identical, missing cells
\* set aside, are reported with similarity 1.0.
C14_IdenticalColumnsReported ==
    pc = "done" =>
        \A i, j \in 1..Len(headers) :
            (i < j /\ \A r \in 1..Len(rows) : rows[r][i] = rows[r][j])
            => ReportedWith(i, j, Rat(1, 1))

\* C14 as amended: two columns i < j are reported with similarity 1.0 when
\* column i has a non-missing cell and every non-missing cell of column i
\* equals the cell of column j in its row.
C14_CoveredColumnReported ==
    pc = "done" =>
        \A i, j \in 1..Len(headers) :
            (/\ i < j
             /\ ValidRows(i) # {}
             /\ \A r \in ValidRows(i) : rows[r][i] = rows[r][j])
            => ReportedWith(i, j, Rat(1, 1))

\* detect_redundancy has run on a table whose first column has a missing
\* cell and whose other cells equal those of the second column.
C14_Witness ==
    /\ pc = "done"
    /\ Len(headers) = 2
    /\ ValidRows(1) # {} /\ ValidRows(1) # 1..Len(rows)
    /\ \A r \in ValidRows(1) : rows[r][1] = rows[r][2]
    /\ ReportedWith(1, 2, Rat(1, 1))

\* C18: detect_redundancy reports exactly the pairs i < j with
\* matches / total_valid > 0.9, total_valid counting the non-missing cells
\* of column i; no pair with total_valid = 0 and none with similarity 0.9
\* exactly; the pairs come out in the lexicographic order of (i, j).
C18_RedundancyPairsExact ==
    pc = "done" =>
        LET p == out.redundancy_pairs
        IN  /\ \A i, j \in 1..Len(headers) :
                  (/\ i < j
                   /\ ValidRows(i) # {}
                   /\ 10 * Cardinality(MatchingRows(i, j)) > 9 * Cardinality(ValidRows(i)))
                  <=> \E k \in DOMAIN p : p[k][1] = i - 1 /\ p[k][2] = j - 1
            /\ \A k \in DOMAIN p :
                  p[k][3] = Rat(Cardinality(MatchingRows(p[k][1] + 1, p[k][2] + 1)),
                                Cardinality(ValidRows(p[k][1] + 1)))
            /\ \A k, l \in DOMAIN p :
                  k < l => \/ p[k][1] < p[l][1]
                           \/ p[k][1] = p[l][1] /\ p[k][2] < p[l][2]

\* detect_redundancy has run on ten rows of which nine match: the similarity
\* is 0.9 and the pair is not reported.
C18_Witness ==
    /\ pc = "done"
    /\ rows = Repeat(<<"1", "1">>, 9) \o Repeat(<<"1", "x">>, 1)
    /\ out.redundancy_pairs = <<>>

\* The sum of the counts of the bins of a distribution.
RECURSIVE CountSum(_)
CountSum(bins) == IF bins = <<>> THEN 0 ELSE Head(bins)[2] + CountSum(Tail(bins))

\* min + (k + 0.5) * (max - min) / 10
BinCentre(k, min, max) ==
    FAdd(min, FDiv(FMul(Rat(2 * k + 1, 2), FSub(max, min)), FromInt(10)))

\* C15: a column with a numeric value and min < max has ten bins, with the
\* centres min + (k + 0.5) * (max - min) / 10 (5, 15, ..., 95 for the range
\* [0, 100]); every numeric value is counted once, the values equal to max
\* in bin 9; a column with min = max has the one bin (min, number of
\* values), and a column without numeric values has no bin.
C15_TenBinsCoverTheRange ==
    pc = "done" =>
        \A c \in 1..Len(headers) :
            LET values == NumericValues(rows, c - 1)
                bins == out.distributions[c]
                min == stats[c].min.v
                max == stats[c].max.v
            IN  /\ values = <<>> => bins = <<>>
                /\ (values # <<>> /\ FEq(min, max))
                      => bins = << <<min, Len(values)>> >>
                /\ (values # <<>> /\ FLt(min, max))
                      => /\ Len(bins) = 10
                         /\ \A k \in 0..9 : FEq(bins[k + 1][1], BinCentre(k, min, max))
                         /\ (min = Rat(0, 1) /\ max = Rat(100, 1))
                               => \A k \in 0..9 : bins[k + 1][1] = Rat(10 * k + 5, 1)
                         /\ CountSum(bins) = Len(values)
                         /\ bins[10][2] >= Cardinality({p \in 1..Len(values) :
                                                          FEq(values[p], max)})

\* The target column (from 0): the first column whose lower-cased name
\* contains "target", column 0 when there is none.
TargetColumn ==
    IF \E c \in 1..Len(headers) : ContainsTarget(to_lowercase(headers[c]))
    THEN (CHOOSE c \in 1..Len(headers) :
             /\ ContainsTarget(to_lowercase(headers[c]))
             /\ \A b \in 1..(c - 1) : ~ContainsTarget(to_lowercase(headers[b]))) - 1
    ELSE 0

\* C19: feature_importance never holds the target column; it holds each
\* other column at most once, and exactly those with a numeric value and as
\* many numeric values as the target; no entry has a smaller importance than
\* one behind it, and of two entries with equal importance the one of the
\* lower column comes first.
C19_ImportanceRanked ==
    pc = "done" =>
        LET fi == out.feature_importance
            count(c) == Len(NumericValues(rows, c))
        IN  /\ \A k \in DOMAIN fi : fi[k][1] # TargetColumn
            /\ \A k, l \in DOMAIN fi : k < l => fi[k][1] # fi[l][1]
            /\ \A c \in (0..(Len(headers) - 1)) \ {TargetColumn} :
                  (\E k \in DOMAIN fi : fi[k][1] = c)
                  <=> (count(c) >= 1 /\ count(c) = count(TargetColumn))
            /\ \A k, l \in DOMAIN fi :
                  k < l => /\ ~FLt(fi[k][2], fi[l][2])
                           /\ FEq(fi[k][2], fi[l][2]) => fi[k][1] < fi[l][1]

\* s is strictly ascending in the order less.
Ascending(s, less(_, _)) == \A k, l \in DOMAIN s : k < l => less(s[k], s[l])

\* An anomaly comes before another: a lower column, or the same column and
\* a lower row.
AnomalyBefore(a, b) == a[1] < b[1] \/ (a[1] = b[1] /\ a[3] < b[3])

IntBefore(a, b) == a < b

PopulationVariance(values) ==
    FDiv(SumSqDev(values, FDiv(SumSeq(values), FromInt(Len(values)))),
         FromInt(Len(values)))

\* C21: for a column with one or more numeric values, all of them finite,
\* variance is the population variance of the values (divisor n), which is
\* 0.0 for a single value, and it is the square of std_dev.
C21_PopulationVariance ==
    stats # <<>> =>
        LET values == StatsValues(rows, 0)
            st == stats[1]
        IN  (values # <<>> /\ \A k \in DOMAIN values : IsFinite(values[k]))
            => /\ st.variance.some
               /\ st.std_dev.some
               /\ FEq(st.variance.v, PopulationVariance(values))
               /\ FEq(st.variance.v, FPowi2(st.std_dev.v))
               /\ Len(values) = 1 => FEq(st.variance.v, Rat(0, 1))

\* Two f64 values are the same value: both NaN, or equal.
SameF64(x, y) == (IsNaN(x) /\ IsNaN(y)) \/ FEq(x, y)

\* The other columns (from 0) with as many numeric values as column i, in
\* ascending order.
Contributors(i) ==
    LET SameCount(j) ==
            j # i /\ Len(NumericValues(rows, j)) = Len(NumericValues(rows, i))
    IN  SelectSeq([c \in 1..Len(headers) |-> c - 1], SameCount)

\* |correlation(i, j)|: 0.0 when a mean or a std_dev of the two columns is
\* None, else |cov / (std_i * std_j)| with cov the mean product of the
\* deviations.
AbsCorrelation(i, j) ==
    LET si == stats[i + 1]
        sj == stats[j + 1]
        xs == NumericValues(rows, i)
    IN  IF ~(si.mean.some /\ si.std_dev.some /\ sj.mean.some /\ sj.std_dev.some)
        THEN Rat(0, 1)
        ELSE FAbs(FDiv(FDiv(SumProducts(xs, NumericValues(rows, j),
                                        si.mean.v, sj.mean.v),
                            FromInt(Len(xs))),
                       FMul(si.std_dev.v, sj.std_dev.v)))

\* C22: in a table with more than one column, the dependency score of
\* column i is 0.0 when the column has no numeric value, and else the sum of
\* |correlation(i, j)| over the other columns j with as many numeric values
\* as column i, divided by num_cols - 1.
C22_DependencyOverOtherColumns ==
    ("dependency_scores" \in DOMAIN out /\ Len(headers) > 1) =>
        \A i \in 0..(Len(headers) - 1) :
            LET cs == Contributors(i)
            IN  SameF64(out.dependency_scores[i + 1],
                        IF NumericValues(rows, i) = <<>> THEN Rat(0, 1)
                        ELSE FDiv(SumSeq([k \in 1..Len(cs) |-> AbsCorrelation(i, cs[k])]),
                                  FromInt(Len(headers) - 1)))

\* The scores of a three-column table are in: one column has a single other
\* column with as many numeric values and the score 0.25, another has
\* no numeric value.
C22_Witness ==
    /\ "dependency_scores" \in DOMAIN out
    /\ Len(headers) = 3
    /\ \E i \in 0..2 : /\ Len(Contributors(i)) = 1
                       /\ FEq(out.dependency_scores[i + 1], Rat(1, 4))
    /\ \E i \in 0..2 : NumericValues(rows, i) = <<>>

\* The non-missing values of column c (from 1).
ColumnValues(c) == {rows[r][c] : r \in 1..Len(rows)} \ {"", "NA"}

\* The number of rows that hold val in column c (from 1).
RowsHolding(c, val) == Cardinality({r \in 1..Len(rows) : rows[r][c] = val})

\* C23: top_values[i] lists min(5, number of distinct non-missing values)
\* entries, none of them a missing marker, each with the number of rows
\* that hold its value in column i, in non-increasing count order, and no
\* value left out counts more than a listed one.
C23_TopFiveByCount ==
    "top_values" \in DOMAIN out =>
        \A c \in 1..Len(headers) :
            LET top == out.top_values[c][2]
                distinct == Cardinality(ColumnValues(c))
                listed == {top[k][1] : k \in DOMAIN top}
            IN  /\ Len(top) = (IF distinct < 5 THEN distinct ELSE 5)
                /\ \A k \in DOMAIN top :
                      /\ top[k][1] \notin {"", "NA"}
                      /\ top[k][2] = RowsHolding(c, top[k][1])
                /\ \A k, l \in DOMAIN top : k < l => top[k][2] >= top[l][2]
                /\ \A val \in ColumnValues(c) \ listed :
                      \A k \in DOMAIN top : RowsHolding(c, val) <= top[k][2]

\* The top values of the column with six distinct values are in: five are
\* listed, the two that occur twice first, and one that occurs once is
\* left out.
C23_Witness ==
    /\ "top_values" \in DOMAIN out
    /\ rows = TopValuesExample
    /\ Len(out.top_values[1][2]) = 5
    /\ out.top_values[1][2][2][2] = 2
    /\ out.top_values[1][2][3][2] = 1
    /\ \E val \in ColumnValues(1) :
          \A k \in 1..5 : out.top_values[1][2][k][1] # val

\* C25: infer_type returns Float, Boolean or String, whatever the column
\* holds: never Integer, never Mixed.
C25_ThreeTypesOnly ==
    \A c \in DOMAIN types : types[c] \in {"Float", "Boolean", "String"}

\* infer_type has run on a column of integers that are not all boolean
\* texts.
C25_Witness ==
    /\ types # <<>>
    /\ rows = AsRows(<<"1", "2", "3">>)
    /\ types[1] = "Float"

\* The cells, as (column, row) from 0, that outliers lists.
OutlierCells ==
    UNION {{<<c - 1, outliers[c][k]>> : k \in DOMAIN outliers[c]} : c \in DOMAIN outliers}

\* C26: the (column, row) pairs of anomalies are those of outliers, the
\* value of each anomaly is the parsed cell at its row and column, no cell
\* is listed twice, and both list the rows of a column in ascending order.
C26_AnomaliesAreTheOutliers ==
    pc = "done" =>
        LET an == out.anomalies
        IN  /\ {<<an[k][1], an[k][3]>> : k \in DOMAIN an} = OutlierCells
            /\ Len(an) = Cardinality(OutlierCells)
            /\ \A k \in DOMAIN an :
                  an[k][2] = parse_f64(rows[an[k][3] + 1][an[k][1] + 1]).v
            /\ \A k, l \in DOMAIN an :
                  (k < l /\ an[k][1] = an[l][1]) => an[k][3] < an[l][3]
            /\ \A c \in DOMAIN outliers :
                  \A k, l \in DOMAIN outliers[c] : k < l => outliers[c][k] < outliers[c][l]

\* describe has gone through a column of ten zeros and a one in its fourth
\* row: that row is the one outlier and the one anomaly.
C26_Witness ==
    /\ pc = "done"
    /\ rows = SpikeTable(11, 4, "2")
    /\ outliers = << <<3>>, <<>> >>
    /\ out.anomalies = << <<0, FromInt(1), 3>> >>

\* The columns (from 1) with at most ten numeric values.
FewValues == {c \in 1..Len(headers) : Len(NumericValues(rows, c - 1)) <= 10}

---------------------------------------------------------------------------
(* The viewer                                                              *)

\* The step handles a press of key in the event loop.
Pressed(key) == tui = "read" /\ view'.key = Some(key)

\* The step leaves every scroll offset and selection of the viewer alone.
OffsetsKept == [view' EXCEPT !.key = view.key] = view

\* The export of the step succeeded: the file holds the Description, and
\* the loop goes on to its next frame on the same tab at the same offsets.
Exported ==
    /\ file' = Some(desc.v)
    /\ tab_index' = tab_index
    /\ OffsetsKept
    /\ tui' = "draw"
    /\ pc' = pc

\* C24 (as stated): the only key that writes anything is 'e', which writes
\* the Description to presto_insights.json and keeps the viewer running; no
\* other key writes a file, no key changes the Description or the dataset,
\* and 'e' leaves tab_index and every scroll offset unchanged.
C24_ExportKeepsViewerRunning ==
    [][/\ file' # file => Pressed("e")
       /\ desc' = desc /\ headers' = headers /\ rows' = rows
       /\ Pressed("e") => Exported]_vars

\* C24 (amended): as stated, except that an 'e' whose serialisation or write
\* fails ends the viewer: render_tui returns the error, and the file does
\* not hold the Description unless an earlier export wrote it.
C24_ExportOrError ==
    [][/\ file' # file => Pressed("e")
       /\ desc' = desc /\ headers' = headers /\ rows' = rows
       /\ Pressed("e") =>
             \/ Exported
             \/ /\ file' \in FailedWrites(file)
                /\ tui' = "off"
                /\ pc' = "exit_err"]_vars

\* An export from another tab than the first, after an arrow key moved an
\* offset or a selection.
C24_Witness ==
    /\ tui = "draw"
    /\ view.key = Some("e")
    /\ file = Some(desc.v)
    /\ tab_index # 0
    /\ [view EXCEPT !.key = None, !.area = <<0, 0>>, !.moves = 0,
                    !.overflow_checks = None] # ViewInit

\* An export that failed: render_tui returned the error to main.
C24_ExportFailed ==
    /\ tui = "off"
    /\ pc = "exit_err"
    /\ view.key = Some("e")

\* The step ends the event loop of render_tui.
LoopEnds == tui \in {"draw", "read"} /\ tui' \notin {"draw", "read"}

\* The step leaves the loop through the break of 'q'.
EndsByQuit == Pressed("q") /\ tui' = "leave"

\* The step returns an error of the terminal or of the export to main.
EndsByError == tui' = "off" /\ pc' = "exit_err"

\* The tab arithmetic of C28: tab_index stays in 0..4, Tab adds one and
\* Shift+Tab subtracts one modulo 5, and no other key changes it.
TabIndexCycles ==
    /\ tab_index \in 0..4
    /\ tab_index' \in 0..4
    /\ (((tab_index + 1) % 5) + 4) % 5 = tab_index
    /\ (tab_index + 5) % 5 = tab_index
    /\ Pressed("Tab") => tab_index' = (tab_index + 1) % 5
    /\ Pressed("BackTab") => tab_index' = IF tab_index = 0 THEN 4 ELSE tab_index - 1
    /\ \A key \in (Keys \cup ArrowKeys) \ {"Tab", "BackTab"} :
          (Pressed(key) /\ tui' # "off") => tab_index' = tab_index

\* C28: tab_index is always in 0..4; Tab moves it forward and Shift+Tab
\* backward modulo 5, so that Shift+Tab undoes Tab and five Tabs return to
\* the tab they started from; no other key changes tab_index, and only 'q'
\* or an I/O error ends the loop.
C28_TabsCycleAndOnlyQuitEnds ==
    [][/\ TabIndexCycles
       /\ LoopEnds => (EndsByQuit \/ EndsByError)]_vars

\* tui.rs:87-257: the places of the draw closure that can panic.
DrawSites == {"tui.rs:87", "tui.rs:257"}

\* C29: the scroll offsets and selections stay in range (Stats at most 8,
\* Correlations at most the number of headers, a selection below the number
\* of headers, nothing below 0), every slice of the draw is in range and
\* drawing never panics.
C29_OffsetsInRangeDrawNeverPanics ==
    /\ view.table_h_scroll \in 0..8
    /\ view.corr_h_scroll \in 0..Len(headers)
    /\ view.table_state.some => view.table_state.v \in 0..(Len(headers) - 1)
    /\ view.corr_state.some => view.corr_state.v \in 0..(Len(headers) - 1)
    /\ \A offset \in {view.details_v_scroll, view.details_h_scroll,
                      view.advanced_v_scroll, view.advanced_h_scroll,
                      view.plots_v_scroll, view.plots_h_scroll} : offset >= 0
    /\ tui = "draw" => \A area \in Areas : ~SlicePanics(tab_index, view, area, Len(headers))
    /\ tui = "panicked" => ret.v.at \notin DrawSites

\* C30: on the Correlations tab, at every horizontal scroll offset, the
\* header row has as many cells as each data row, and the header cell above
\* a correlation names the column the value is the correlation with.
C30_HeaderAboveItsColumn ==
    (tui = "read" /\ tab_index = 3) =>
        \A i \in 0..(Len(headers) - 1) :
            /\ Len(CorrHeaderRow(view, view.area, headers))
                  = Len(CorrDataRow(view, view.area, headers, i))
            /\ \A k \in DOMAIN CorrDataRow(view, view.area, headers, i) :
                  CorrDataRow(view, view.area, headers, i)[k].kind = "corr" =>
                      /\ k \in DOMAIN CorrHeaderRow(view, view.area, headers)
                      /\ CorrHeaderRow(view, view.area, headers)[k]
                            = headers[CorrDataRow(view, view.area, headers, i)[k].with + 1]

=============================================================================
